---- MODULE Spec2Model ----
(***************************************************************************)
(* A model of the riat HSC compiler: Compiler::read_script_data appends   *)
(* the top-level blocks of a file to the compiler's token list, and        *)
(* Compiler::digest_tokens classifies them into scripts and globals,       *)
(* analyses every body into a typed node tree, collapses single-argument   *)
(* begin calls, replaces stubs, rejects duplicates, resolves indices and   *)
(* flattens the trees into one node array.                                 *)
(*                                                                         *)
(* Indices (node indices, script/global positions, parameter positions)   *)
(* are 0-based values as in the source; TLA+ sequences are 1-based, so    *)
(* the element with index k of a Vec v is v[k + 1].                        *)
(***************************************************************************)
EXTENDS Integers, Sequences, FiniteSets, TLC

VARIABLES
    target,     \* Compiler::target
    tokens,     \* Compiler::tokens
    files,      \* Compiler::files
    warnings,   \* Compiler::warnings
    pc,         \* position inside digest_tokens ("idle" between calls)
    drained,    \* digest_tokens' local `tokens`, drained from Compiler::tokens
    scripts,    \* digest_tokens' local `scripts`
    globals,    \* digest_tokens' local `globals`
    result      \* what the last digest_tokens call returned

vars == <<target, tokens, files, warnings, pc, drained, scripts, globals, result>>

(***************************************************************************)
(* Bounds of the model.                                                    *)
(***************************************************************************)
\* files read into one compiler before it is emptied by a successful digest
MaxFiles == 2

(***************************************************************************)
(* Option<T>                                                               *)
(***************************************************************************)
None == [some |-> FALSE]
Some(x) == [some |-> TRUE, v |-> x]

\* The elements of a sequence, as a set.
Range(s) == {s[i] : i \in 1..Len(s)}

\* s[from..] of a Rust slice, `from` 0-based.
SliceFrom(s, from) == SubSeq(s, from + 1, Len(s))

(***************************************************************************)
(* ValueType                                                               *)
(***************************************************************************)
\* The pairs (HSC type name, variant) of ValueType::from_str_underscore.
ValueTypeNames ==
    << <<"unparsed", "Unparsed">>, <<"special_form", "SpecialForm">>,
       <<"function_name", "FunctionName">>, <<"passthrough", "Passthrough">>,
       <<"void", "Void">>, <<"boolean", "Boolean">>, <<"real", "Real">>,
       <<"short", "Short">>, <<"long", "Long">>, <<"string", "String">>,
       <<"script", "Script">>, <<"trigger_volume", "TriggerVolume">>,
       <<"cutscene_flag", "CutsceneFlag">>,
       <<"cutscene_camera_point", "CutsceneCameraPoint">>,
       <<"cutscene_title", "CutsceneTitle">>,
       <<"cutscene_recording", "CutsceneRecording">>,
       <<"device_group", "DeviceGroup">>, <<"ai", "Ai">>,
       <<"ai_command_list", "AiCommandList">>,
       <<"starting_profile", "StartingProfile">>,
       <<"conversation", "Conversation">>, <<"navpoint", "Navpoint">>,
       <<"hud_message", "HudMessage">>, <<"object_list", "ObjectList">>,
       <<"sound", "Sound">>, <<"effect", "Effect">>, <<"damage", "Damage">>,
       <<"looping_sound", "LoopingSound">>,
       <<"animation_graph", "AnimationGraph">>,
       <<"actor_variant", "ActorVariant">>, <<"damage_effect", "DamageEffect">>,
       <<"object_definition", "ObjectDefinition">>,
       <<"game_difficulty", "GameDifficulty">>, <<"team", "Team">>,
       <<"ai_default_state", "AiDefaultState">>, <<"actor_type", "ActorType">>,
       <<"hud_corner", "HudCorner">>, <<"object", "Object">>, <<"unit", "Unit">>,
       <<"vehicle", "Vehicle">>, <<"weapon", "Weapon">>, <<"device", "Device">>,
       <<"scenery", "Scenery">>, <<"object_name", "ObjectName">>,
       <<"unit_name", "UnitName">>, <<"vehicle_name", "VehicleName">>,
       <<"weapon_name", "WeaponName">>, <<"device_name", "DeviceName">>,
       <<"scenery_name", "SceneryName">> >>

\* enum ValueType
ValueType == {ValueTypeNames[i][2] : i \in 1..Len(ValueTypeNames)}

\* ValueType::from_str_underscore: an exact, case-sensitive match on the name.
from_str_underscore(string) ==
    IF \E i \in 1..Len(ValueTypeNames) : ValueTypeNames[i][1] = string
    THEN Some(ValueTypeNames[CHOOSE i \in 1..Len(ValueTypeNames) :
                                 ValueTypeNames[i][1] = string][2])
    ELSE None

\* A variant of can_convert_to without the arm for Void.
can_convert_to_listed(from, to) ==
    IF from = to THEN TRUE
    ELSE IF from = "Passthrough" THEN TRUE
    ELSE IF from = "Real" THEN to = "Long" \/ to = "Short"
    ELSE IF from = "Short" THEN to = "Real"
    ELSE IF from = "Long" THEN to = "Short" \/ to = "Real"
    ELSE IF from = "Vehicle" /\ to = "Unit" THEN TRUE
    ELSE IF from \in {"ObjectName", "Object", "Unit", "Weapon", "Scenery",
                      "Vehicle", "Device"}
         THEN to = "Object" \/ to = "ObjectList"
    ELSE FALSE

\* ValueType::can_convert_to, arm by arm in match order.
can_convert_to(from, to) ==
    IF from = to THEN TRUE
    ELSE IF to = "Void" THEN TRUE
    ELSE IF from = "Passthrough" THEN TRUE
    ELSE IF from = "Real" THEN to = "Long" \/ to = "Short"
    ELSE IF from = "Short" THEN to = "Real"
    ELSE IF from = "Long" THEN to = "Short" \/ to = "Real"
    ELSE IF from = "Vehicle" /\ to = "Unit" THEN TRUE
    ELSE IF from \in {"ObjectName", "Object", "Unit", "Weapon", "Scenery",
                      "Vehicle", "Device"}
         THEN to = "Object" \/ to = "ObjectList"
    ELSE FALSE

(***************************************************************************)
(* CompileTarget, ScriptType                                               *)
(***************************************************************************)
\* The targets the model compiles for: one with script parameters and the
\* Custom Edition target (enum CompileTarget has three more without them).
CompileTarget == {"HaloCEA", "HaloCustomEdition"}

\* CompileTarget::maximum_script_parameters
maximum_script_parameters(t) == IF t = "HaloCEA" THEN 16 ELSE 0

\* ScriptType::from_str
ScriptType_from_str(input) ==
    IF input = "static" THEN Some("Static")
    ELSE IF input = "stub" THEN Some("Stub")
    ELSE IF input = "continuous" THEN Some("Continuous")
    ELSE IF input = "dormant" THEN Some("Dormant")
    ELSE IF input = "startup" THEN Some("Startup")
    ELSE None

\* ScriptType::always_returns_void
always_returns_void(script_type) ==
    script_type # "Static" /\ script_type # "Stub"

\* ScriptType::expression_offset
expression_offset(script_type) ==
    3 + (IF always_returns_void(script_type) THEN 0 ELSE 1)

(***************************************************************************)
(* Strings                                                                 *)
(***************************************************************************)
\* The strings of the input universe that hold an ASCII uppercase letter,
\* each with its str::to_ascii_lowercase image.
UppercaseStrings ==
    << <<"Script", "script">>, <<"Static", "static">>, <<"Void", "void">>,
       <<"Hello", "hello">>, <<"Print", "print">>, <<"Global", "global">>,
       <<"Short", "short">>, <<"Eleven", "eleven">>, <<"X", "x">>,
       <<"True", "true">> >>

\* Does the string hold an ASCII uppercase letter?
has_ascii_uppercase(string) ==
    \E i \in 1..Len(UppercaseStrings) : UppercaseStrings[i][1] = string

\* str::to_ascii_lowercase
to_ascii_lowercase(string) ==
    IF has_ascii_uppercase(string)
    THEN UppercaseStrings[CHOOSE i \in 1..Len(UppercaseStrings) :
                              UppercaseStrings[i][1] = string][2]
    ELSE string

\* Compiler::lowercase_token
lowercase_token(token) == to_ascii_lowercase(token.string)

\* The decimal integer literals of the input universe with their values;
\* every other string of the universe is no number.
IntegerLiterals ==
    << <<"0", 0>>, <<"1", 1>>, <<"2", 2>>, <<"3", 3>>, <<"5", 5>>, <<"6", 6>>,
       <<"32767", 32767>>, <<"32768", 32768>>, <<"-32768", 0 - 32768>> >>

\* str::parse for an integer type of the given range.
parse_integer(string, min, max) ==
    IF \E i \in 1..Len(IntegerLiterals) :
          /\ IntegerLiterals[i][1] = string
          /\ IntegerLiterals[i][2] >= min
          /\ IntegerLiterals[i][2] <= max
    THEN Some(IntegerLiterals[CHOOSE i \in 1..Len(IntegerLiterals) :
                                  IntegerLiterals[i][1] = string][2])
    ELSE None

\* str::parse::<f32>: the integer literals of the universe are its only
\* numbers, and all of them are exact in f32.
parse_real(string) ==
    IF \E i \in 1..Len(IntegerLiterals) : IntegerLiterals[i][1] = string
    THEN Some(IntegerLiterals[CHOOSE i \in 1..Len(IntegerLiterals) :
                                  IntegerLiterals[i][1] = string][2])
    ELSE None

(***************************************************************************)
(* Tokens                                                                  *)
(***************************************************************************)
\* Source text as a tree: a word (or quoted string), or a parenthesised block.
Leaf(string) == [leaf |-> TRUE, string |-> string]
Block(children) == [leaf |-> FALSE, children |-> children]

RECURSIVE MakeToken(_, _, _, _)
\* struct Token for a source tree read from file index `file`: the tree sits
\* on one line and its tokens get increasing columns in reading order.
\* Returns the token and the next free column.
MakeToken(tree, file, line, column) ==
    IF tree.leaf
    THEN [token |-> [line |-> line, column |-> column, file |-> file,
                     string |-> tree.string, children |-> None],
          next |-> column + 1]
    ELSE LET Kids[i \in 0..Len(tree.children)] ==
                 IF i = 0
                 THEN [tokens |-> <<>>, next |-> column + 1]
                 ELSE LET made == MakeToken(tree.children[i], file, line,
                                             Kids[i - 1].next)
                      IN  [tokens |-> Append(Kids[i - 1].tokens, made.token),
                           next |-> made.next]
             all == Kids[Len(tree.children)]
         IN  [token |-> [line |-> line, column |-> column, file |-> file,
                         string |-> "(", children |-> Some(all.tokens)],
              next |-> all.next]

(***************************************************************************)
(* The engine catalog (definition.json, generated into ALL_FUNCTIONS and   *)
(* ALL_GLOBALS by generate_definitions!)                                   *)
(***************************************************************************)
\* struct EngineFunctionParameter
EngineFunctionParameter(value_type, many, optional) ==
    [value_type |-> value_type, many |-> many, allow_uppercase |-> FALSE,
     optional |-> optional]

\* struct EngineAvailability, for the targets of the model
EngineAvailability(mcc_cea, gbx_custom) ==
    [mcc_cea |-> mcc_cea, gbx_custom |-> gbx_custom]

\* struct EngineFunction
EngineFunction(name, return_type, parameters, number_passthrough, passthrough_last, availability) ==
    [name |-> name, return_type |-> return_type, parameters |-> parameters,
     number_passthrough |-> number_passthrough,
     passthrough_last |-> passthrough_last, availability |-> availability]

\* The catalog's functions that the inputs of the model use.
ALL_FUNCTIONS ==
    << EngineFunction("begin", "Passthrough",
                      <<EngineFunctionParameter("Passthrough", TRUE, FALSE)>>,
                      FALSE, TRUE, EngineAvailability(Some(0), Some(0))),
       EngineFunction("if", "Passthrough",
                      <<EngineFunctionParameter("Boolean", FALSE, FALSE),
                        EngineFunctionParameter("Passthrough", FALSE, FALSE),
                        EngineFunctionParameter("Passthrough", FALSE, TRUE)>>,
                      FALSE, FALSE, EngineAvailability(Some(2), Some(2))),
       EngineFunction("=", "Boolean",
                      <<EngineFunctionParameter("Passthrough", FALSE, FALSE),
                        EngineFunctionParameter("Passthrough", FALSE, FALSE)>>,
                      FALSE, FALSE, EngineAvailability(Some(9), Some(9))),
       EngineFunction("+", "Real",
                      <<EngineFunctionParameter("Real", TRUE, FALSE)>>,
                      TRUE, FALSE, EngineAvailability(Some(5), Some(5))),
       EngineFunction("wake", "Void",
                      <<EngineFunctionParameter("Script", FALSE, FALSE)>>,
                      FALSE, FALSE, EngineAvailability(Some(20), Some(20))),
       EngineFunction("print", "Void",
                      <<EngineFunctionParameter("String", FALSE, FALSE)>>,
                      FALSE, FALSE, EngineAvailability(Some(24), Some(25))),
       EngineFunction("game_save", "Void", <<>>,
                      FALSE, FALSE, EngineAvailability(Some(30), Some(31))),
       EngineFunction("gbx_only", "Void", <<>>,
                      FALSE, FALSE, EngineAvailability(None, Some(40))) >>

\* struct EngineGlobal
EngineGlobal(name, value_type, availability) ==
    [name |-> name, value_type |-> value_type, availability |-> availability]

\* The catalog's globals that the inputs of the model use.
ALL_GLOBALS ==
    << EngineGlobal("cheat_deathless_player", "Boolean",
                    EngineAvailability(Some(3), Some(3))) >>

\* A variant of index_for_target that reads the other target's entry.
index_for_target_swapped(availability, t) ==
    IF t = "HaloCEA" THEN availability.gbx_custom ELSE availability.mcc_cea

\* EngineAvailability::index_for_target
index_for_target(availability, t) ==
    IF t = "HaloCEA" THEN availability.mcc_cea ELSE availability.gbx_custom

\* EngineAvailability::supports_target
supports_target(availability, t) == index_for_target(availability, t) # None


(***************************************************************************)
(* Results, errors, nodes                                                  *)
(***************************************************************************)
\* Result::Ok
Ok(x) == [ok |-> TRUE, v |-> x]

\* return_compile_error!: Err(CompileError) positioned at the token.
\* `panic` is FALSE for an error that is returned.
CompileError(token, message) ==
    [ok |-> FALSE, panic |-> FALSE, message |-> message,
     file |-> token.file, line |-> token.line, column |-> token.column]

\* A panic (unreachable!, a failed assertion, an index out of bounds, an
\* arithmetic overflow in a build that checks it): the call does not return.
Panic(message) ==
    [ok |-> FALSE, panic |-> TRUE, message |-> message,
     file |-> 0, line |-> 0, column |-> 0]

\* enum NodeType
Primitive(primitive_type) ==
    [kind |-> "Primitive", primitive_type |-> primitive_type]
FunctionCall(is_engine_function) ==
    [kind |-> "FunctionCall", is_engine_function |-> is_engine_function]

\* enum NodeData
NodeData(tag, value) == [tag |-> tag, value |-> value]

\* struct Node, positioned at the token
Node(value_type, node_type, string_data, data, parameters, index, token) ==
    [value_type |-> value_type, node_type |-> node_type,
     string_data |-> string_data, data |-> data, parameters |-> parameters,
     index |-> index,
     file |-> token.file, line |-> token.line, column |-> token.column]

\* Node::default()
DefaultNode ==
    [value_type |-> "Unparsed", node_type |-> Primitive("Static"),
     string_data |-> None, data |-> None, parameters |-> None, index |-> None,
     file |-> 0, line |-> 0, column |-> 0]

(***************************************************************************)
(* CallableFunction / CallableGlobal and the maps digest_tokens builds     *)
(***************************************************************************)
\* A variant of parameter_index that finds every parameter at position 0.
parameter_index_zero(name, parameters) ==
    IF \E i \in 1..Len(parameters) : parameters[i].name = name
    THEN Some(0)
    ELSE None

\* parameter_index: the first parameter with the name.
parameter_index(name, parameters) ==
    IF \E i \in 1..Len(parameters) : parameters[i].name = name
    THEN Some((CHOOSE i \in 1..Len(parameters) :
                  /\ parameters[i].name = name
                  /\ \A j \in 1..(i - 1) : parameters[j].name # name) - 1)
    ELSE None

\* The last element of the sequence with the name (a BTreeMap insert of an
\* existing key replaces the value).
LastNamed(seq, name) ==
    seq[CHOOSE i \in 1..Len(seq) :
            /\ seq[i].name = name
            /\ \A j \in (i + 1)..Len(seq) : seq[j].name # name]

\* all_functions_and_globals_for_target, the functions
targeted_functions(t) ==
    SelectSeq(ALL_FUNCTIONS, LAMBDA f : supports_target(f.availability, t))

\* all_functions_and_globals_for_target, the globals
targeted_globals(t) ==
    SelectSeq(ALL_GLOBALS, LAMBDA g : supports_target(g.availability, t))

\* callable_functions and callable_globals as digest_tokens builds them: the
\* engine functions and globals of the target, then the scripts and globals
\* of the input.
callables(global_list, script_list, t) ==
    [scripts |-> script_list, globals |-> global_list,
     engine_functions |-> targeted_functions(t),
     engine_globals |-> targeted_globals(t)]

\* A variant of callable_functions_get that looks among the engine
\* functions first.
callable_functions_get_engine_first(env, name) ==
    IF \E f \in Range(env.engine_functions) : f.name = name
    THEN Some([engine |-> TRUE,
               function |-> LastNamed(env.engine_functions, name)])
    ELSE IF \E s \in Range(env.scripts) : s.name = name
    THEN Some([engine |-> FALSE, script |-> LastNamed(env.scripts, name)])
    ELSE None

\* callable_functions.get(name): the scripts are inserted after the engine
\* functions of the target.
callable_functions_get(env, name) ==
    IF \E s \in Range(env.scripts) : s.name = name
    THEN Some([engine |-> FALSE, script |-> LastNamed(env.scripts, name)])
    ELSE IF \E f \in Range(env.engine_functions) : f.name = name
    THEN Some([engine |-> TRUE,
               function |-> LastNamed(env.engine_functions, name)])
    ELSE None

\* callable_globals.get(name): the user globals are inserted after the
\* engine globals of the target.
callable_globals_get(env, name) ==
    IF \E g \in Range(env.globals) : g.name = name
    THEN Some(LastNamed(env.globals, name))
    ELSE IF \E g \in Range(env.engine_globals) : g.name = name
    THEN Some(LastNamed(env.engine_globals, name))
    ELSE None

\* CallableFunction::is_engine_function
is_engine_function(function) == function.engine

\* CallableFunction::get_return_type
get_return_type(function) ==
    IF function.engine THEN function.function.return_type
    ELSE function.script.return_type

\* CallableFunction::get_total_parameter_count
get_total_parameter_count(function) ==
    IF function.engine THEN Len(function.function.parameters)
    ELSE Len(function.script.parameters)

\* CallableFunction::get_minimum_parameter_count: the position of the first
\* optional parameter of an engine function; the total for a script.
get_minimum_parameter_count(function) ==
    IF function.engine
    THEN LET parameters == function.function.parameters
         IN  IF \E i \in 1..Len(parameters) : parameters[i].optional
             THEN (CHOOSE i \in 1..Len(parameters) :
                      /\ parameters[i].optional
                      /\ \A j \in 1..(i - 1) : ~parameters[j].optional) - 1
             ELSE Len(parameters)
    ELSE get_total_parameter_count(function)

\* A variant of get_type_of_parameter that does not repeat the last
\* parameter.
get_type_of_parameter_once(function, index) ==
    IF function.engine
    THEN IF index < Len(function.function.parameters)
         THEN Some(function.function.parameters[index + 1].value_type)
         ELSE None
    ELSE IF index < Len(function.script.parameters)
         THEN Some(function.script.parameters[index + 1].value_type)
         ELSE None

\* CallableFunction::get_type_of_parameter
get_type_of_parameter(function, index) ==
    IF function.engine
    THEN LET parameters == function.function.parameters
             n == Len(parameters)
         IN  IF n = 0 THEN None
             ELSE IF index < n THEN Some(parameters[index + 1].value_type)
             ELSE IF parameters[n].many THEN Some(parameters[n].value_type)
             ELSE None
    ELSE IF index < Len(function.script.parameters)
         THEN Some(function.script.parameters[index + 1].value_type)
         ELSE None

\* CallableFunction::is_number_passthrough
is_number_passthrough(function) ==
    function.engine /\ function.function.number_passthrough

\* CallableFunction::is_passthrough_last
is_passthrough_last(function) ==
    function.engine /\ function.function.passthrough_last

\* CallableFunction::is_inequality: the trait's default, which no
\* implementation overrides.
is_inequality(function) == FALSE

\* CallableFunction::is_uppercase_allowed_for_parameter
is_uppercase_allowed_for_parameter(function, index) ==
    /\ function.engine
    /\ index < Len(function.function.parameters)
    /\ function.function.parameters[index + 1].allow_uppercase


\* A variant of calculate_type that keeps the variable's type.
calculate_type_of_variable(token, value_type, expected_type) ==
    IF expected_type = "Passthrough" THEN Ok(value_type)
    ELSE IF ~can_convert_to(value_type, expected_type)
    THEN CompileError(token, "global cannot convert to expected type")
    ELSE Ok(value_type)

\* A variant of calculate_type that does not check the conversion.
calculate_type_unchecked(token, value_type, expected_type) ==
    IF expected_type = "Passthrough" THEN Ok(value_type) ELSE Ok(expected_type)

(***************************************************************************)
(* The expression analyser                                                 *)
(***************************************************************************)
\* The leaf branch's calculate_type closure: the variable's type under a
\* Passthrough expectation, else the expected type when the variable's type
\* converts to it.
calculate_type(token, value_type, expected_type) ==
    IF expected_type = "Passthrough" THEN Ok(value_type)
    ELSE IF ~can_convert_to(value_type, expected_type)
    THEN CompileError(token, "global cannot convert to expected type")
    ELSE Ok(expected_type)

\* The leaf branch of create_node_from_tokens once the token's name was
\* looked up among the parameters (`local`) and the globals (`global`).
create_node_from_variable(token, expected_type, local, global, available_parameters) ==
    LET final_type ==
            IF local.some
            THEN calculate_type(token, available_parameters[local.v + 1].value_type,
                                expected_type)
            ELSE IF global.some
            THEN calculate_type(token, global.v.value_type, expected_type)
            ELSE Ok(expected_type)
        primitive_type ==
            IF local.some THEN "Local"
            ELSE IF global.some THEN "Global"
            ELSE "Static"
    IN  IF ~final_type.ok THEN final_type
        ELSE Ok(Node(final_type.v, Primitive(primitive_type),
                     Some(lowercase_token(token)), None, None, None, token))

\* The leaf branch of create_node_from_tokens.
create_node_from_leaf(token, expected_type, available_parameters, env) ==
    create_node_from_variable(
        token, expected_type,
        parameter_index(lowercase_token(token), available_parameters),
        callable_globals_get(env, lowercase_token(token)),
        available_parameters)

\* The token at the position of `at`, as the cond desugaring makes them.
SynthesizedToken(at, string, children) ==
    [line |-> at.line, column |-> at.column, file |-> at.file,
     string |-> string, children |-> children]

\* Is the cond parameter not of the shape (<condition> <expression(s)>)?
cond_fail(token) ==
    ~token.children.some \/ Len(token.children.v) < 2

\* A variant of cond_if_tree that builds the if block of parameter i alone.
cond_if_tree_of_one(arguments, i) ==
    LET token == arguments[i]
        expressions == SliceFrom(token.children.v, 1)
    IN  SynthesizedToken(token, "",
            Some(<<SynthesizedToken(token, "if", None), token.children.v[1],
                   SynthesizedToken(expressions[1], "",
                       Some(<<SynthesizedToken(expressions[1], "begin", None)>>
                            \o expressions))>>))

RECURSIVE cond_if_tree(_, _)
\* The if block that the cond desugaring builds from the (well-shaped)
\* parameters of a cond, from parameter i on:
\* (if c1 (begin e1...) (if c2 (begin e2...) ...)).
cond_if_tree(arguments, i) ==
    LET token == arguments[i]
        condition == token.children.v[1]
        expressions == SliceFrom(token.children.v, 1)
        begin_block ==
            SynthesizedToken(expressions[1], "",
                Some(<<SynthesizedToken(expressions[1], "begin", None)>>
                     \o expressions))
        if_expressions ==
            <<SynthesizedToken(token, "if", None), condition, begin_block>>
    IN  SynthesizedToken(token, "",
            Some(IF i = Len(arguments) THEN if_expressions
                 ELSE Append(if_expressions, cond_if_tree(arguments, i + 1))))

\* The literal-parsing step for a static node whose string and type are
\* settled; `script` is what callable_functions holds for the string.
parse_string(parameter_node, parameter_token, string_to_parse, value_type, script) ==
    LET complain ==
            IF script.some
            THEN CompileError(parameter_token,
                     "cannot parse token; did you mean to call it as a function?")
            ELSE CompileError(parameter_token, "cannot parse token")
        parsed(data, clear_string_data) ==
            Ok([parameter_node EXCEPT
                   !.value_type = value_type,
                   !.data = data,
                   !.string_data = IF clear_string_data THEN None
                                   ELSE Some(string_to_parse)])
        short == parse_integer(string_to_parse, 0 - 32768, 32767)
        long == parse_integer(string_to_parse, 0 - 2147483647 - 1, 2147483647)
        real == parse_real(string_to_parse)
        difficulty == <<"easy", "normal", "hard", "impossible">>
        team == <<"default", "player", "human", "covenant", "flood", "sentinel",
                  "unused6", "unused7", "unused8", "unused9">>
        position(names) ==
            (CHOOSE i \in 1..Len(names) : names[i] = string_to_parse) - 1
    IN  CASE value_type = "Boolean" ->
                 IF string_to_parse \in {"0", "false", "off"}
                 THEN parsed(Some(NodeData("Boolean", FALSE)), TRUE)
                 ELSE IF string_to_parse \in {"1", "true", "on"}
                 THEN parsed(Some(NodeData("Boolean", TRUE)), TRUE)
                 ELSE complain
          [] value_type = "Short" ->
                 IF short.some THEN parsed(Some(NodeData("Short", short.v)), TRUE)
                 ELSE complain
          [] value_type = "Long" ->
                 IF long.some THEN parsed(Some(NodeData("Long", long.v)), TRUE)
                 ELSE complain
          [] value_type = "Real" ->
                 IF real.some THEN parsed(Some(NodeData("Real", real.v)), TRUE)
                 ELSE complain
          [] value_type = "GameDifficulty" ->
                 IF string_to_parse \in Range(difficulty)
                 THEN parsed(Some(NodeData("Short", position(difficulty))), FALSE)
                 ELSE complain
          [] value_type = "Team" ->
                 IF string_to_parse \in Range(team)
                 THEN parsed(Some(NodeData("Short", position(team))), FALSE)
                 ELSE complain
          [] value_type = "Script" ->
                 IF ~script.some THEN complain
                 ELSE IF is_engine_function(script.v)
                 THEN CompileError(parameter_token,
                          "no script defined (a function is defined by this name)")
                 ELSE parsed(None, FALSE)
          [] value_type = "Void" -> complain
          [] value_type \in {"Passthrough", "SpecialForm"} ->
                 Panic("unreachable: tried to parse a literal of this type")
          [] OTHER -> parsed(None, FALSE)

\* The literal-parsing step for a static node, with the string it parses.
parse_static(parameter_node, parameter_token, string_to_parse, final_passthrough_type, env) ==
    parse_string(parameter_node, parameter_token, string_to_parse,
                 IF parameter_node.value_type = "Passthrough"
                 THEN final_passthrough_type
                 ELSE parameter_node.value_type,
                 callable_functions_get(env, string_to_parse))

\* The literal-parsing step of create_node_from_function for one parameter.
parse_literal(function, index, parameter_node, parameter_token, final_passthrough_type, env) ==
    IF parameter_node.node_type # Primitive("Static") THEN Ok(parameter_node)
    ELSE parse_static(parameter_node, parameter_token,
                      IF is_uppercase_allowed_for_parameter(function, index)
                      THEN parameter_token.string
                      ELSE lowercase_token(parameter_token),
                      final_passthrough_type, env)

RECURSIVE create_node_from_tokens(_, _, _, _)
RECURSIVE create_node_from_function(_, _, _, _, _, _)

\* Compiler::create_node_from_tokens
create_node_from_tokens(token, expected_type, available_parameters, env) ==
    IF token.children.some
    THEN create_node_from_function(lowercase_token(token.children.v[1]), token,
                                   expected_type, SliceFrom(token.children.v, 1),
                                   available_parameters, env)
    ELSE create_node_from_leaf(token, expected_type, available_parameters, env)

\* A variant of final_type that keeps the function's return type.
call_final_type_of_function(function, expected_type) == get_return_type(function)

\* The type of a call's node: the function's return type under a Passthrough
\* expectation, else the expected type.
call_final_type(function, expected_type) ==
    IF expected_type = "Passthrough" THEN get_return_type(function)
    ELSE expected_type

\* The passthrough type of `set`, from the global its first parameter names.
set_passthrough_type(function_call_token, global) ==
    IF global.some THEN Ok(Some(global.v.value_type))
    ELSE CompileError(function_call_token,
             "parameter is not a global variable name")

\* "Determine the passthrough parameter type": the type the parameters start
\* with, if any.
passthrough_seed(function, function_name, function_call_token, expected_type, arguments, env) ==
    IF function_name = "set"
    THEN IF Len(arguments) = 0 THEN Panic("index out of bounds: arguments[0]")
         ELSE IF arguments[1].children.some
         THEN CompileError(function_call_token,
                  "function 'set' cannot take a block as the variable name")
         ELSE set_passthrough_type(
                  function_call_token,
                  callable_globals_get(env, lowercase_token(arguments[1])))
    ELSE IF /\ get_return_type(function) = "Passthrough"
            /\ call_final_type(function, expected_type) # get_return_type(function)
    THEN Ok(Some(call_final_type(function, expected_type)))
    ELSE Ok(None)

\* The loaded parameters with the analysed parameter `new_node` pushed.
parameter_loaded(before, new_node, parameter_is_passthrough) ==
    IF ~new_node.ok THEN new_node
    ELSE [ok |-> TRUE,
          parameters |-> Append(before.parameters, new_node.v),
          passthrough_type |->
              IF parameter_is_passthrough /\ new_node.v.value_type # "Passthrough"
              THEN Some(new_node.v.value_type)
              ELSE before.passthrough_type]

\* One pass of "Go through each token and load them as parameters", for
\* parameter i (from 1) of declared type `declared`, after the passes that
\* left `before`.
load_parameter(before, i, declared, function, arguments, available_parameters, env) ==
    IF ~before.ok THEN before
    ELSE IF ~declared.some
    THEN CompileError(arguments[i],
             "function takes at most its total parameter(s)")
    ELSE
    LET void_for_now ==
            /\ declared.v = "Passthrough"
            /\ is_passthrough_last(function)
            /\ i # Len(arguments)
        parameter_is_passthrough ==
            /\ declared.v = "Passthrough"
            /\ ~void_for_now
            /\ ~before.passthrough_type.some
        parameter_expected_type ==
            IF declared.v # "Passthrough" THEN declared.v
            ELSE IF void_for_now THEN "Void"
            ELSE IF before.passthrough_type.some
            THEN before.passthrough_type.v
            ELSE "Passthrough"
    IN  parameter_loaded(before,
                         create_node_from_tokens(arguments[i],
                                                 parameter_expected_type,
                                                 available_parameters, env),
                         parameter_is_passthrough)

RECURSIVE load_parameters(_, _, _, _, _, _)
\* "Go through each token and load them as parameters": the state after the
\* first i parameters, or the first error.
load_parameters(i, seed, function, arguments, available_parameters, env) ==
    IF i = 0
    THEN [ok |-> TRUE, parameters |-> <<>>, passthrough_type |-> seed]
    ELSE load_parameter(load_parameters(i - 1, seed, function, arguments,
                                        available_parameters, env),
                        i, get_type_of_parameter(function, i - 1), function,
                        arguments, available_parameters, env)

\* The parameters with parameter i replaced by its parsed literal `one`.
literal_parsed(before, i, one) ==
    IF ~one.ok THEN one
    ELSE Ok([before.v EXCEPT ![i] = one.v])

\* One pass of "Parse the literals now", for parameter i (from 1), after the
\* passes that left `before`.
parse_next_literal(before, i, function, arguments, final_passthrough_type, env) ==
    IF ~before.ok THEN before
    ELSE literal_parsed(before, i,
                        parse_literal(function, i - 1, before.v[i], arguments[i],
                                      final_passthrough_type, env))

RECURSIVE parse_literals(_, _, _, _, _, _)
\* "Parse the literals now": the parameters with the first i of them
\* parsed, or the first error.
parse_literals(i, parameters, function, arguments, final_passthrough_type, env) ==
    IF i = 0 THEN Ok(parameters)
    ELSE parse_next_literal(
             parse_literals(i - 1, parameters, function, arguments,
                            final_passthrough_type, env),
             i, function, arguments, final_passthrough_type, env)

\* The node of the call, once its parameters are parsed.
call_node(done, function, function_name, function_call_token, expected_type) ==
    IF ~done.ok THEN done
    ELSE IF /\ expected_type # "Passthrough"
            /\ ~can_convert_to(call_final_type(function, expected_type),
                               expected_type)
    THEN CompileError(function_call_token,
             "function cannot convert to expected type")
    ELSE Ok(Node(call_final_type(function, expected_type),
                 FunctionCall(is_engine_function(function)),
                 Some(function_name), None, Some(done.v), None,
                 function_call_token))

\* create_node_from_function from "Set the index union to 0xFFFF for
\* variables if set" on: `all` is what the parameter loop left.
create_node_from_parameters(all, function, function_name, function_call_token, expected_type, arguments, env) ==
    IF ~all.ok THEN all
    ELSE
    LET parameters ==
            IF function_name = "set"
            THEN [all.parameters EXCEPT ![1].index = Some(65535)]
            ELSE all.parameters
        final_passthrough_type ==
            IF all.passthrough_type.some THEN all.passthrough_type.v ELSE "Real"
        passthrough_type_is_numeric ==
            can_convert_to(final_passthrough_type, "Real")
    IN  IF is_number_passthrough(function) /\ ~passthrough_type_is_numeric
        THEN CompileError(function_call_token,
                 "function takes only numeric parameters")
        ELSE IF /\ is_inequality(function)
                /\ ~(\/ passthrough_type_is_numeric
                     \/ final_passthrough_type = "GameDifficulty"
                     \/ final_passthrough_type = "Team")
        THEN CompileError(function_call_token,
                 "function is an inequality operator")
        ELSE call_node(parse_literals(Len(arguments), parameters, function,
                                      arguments, final_passthrough_type, env),
                       function, function_name, function_call_token,
                       expected_type)

\* create_node_from_function from the parameter loop on: `seed` is the
\* passthrough type the parameters start with.
create_node_from_seed(seed, function, function_name, function_call_token, expected_type, arguments, available_parameters, env) ==
    IF ~seed.ok THEN seed
    ELSE create_node_from_parameters(
             load_parameters(Len(arguments), seed.v, function, arguments,
                             available_parameters, env),
             function, function_name, function_call_token, expected_type,
             arguments, env)

\* Compiler::create_node_from_function, for a function that is not cond and
\* was found in the map, from the parameter count check on.
create_node_from_call(function, function_name, function_call_token, expected_type, arguments, available_parameters, env) ==
    IF Len(arguments) < get_minimum_parameter_count(function)
    THEN CompileError(function_call_token,
             "function takes at least its minimum parameter(s)")
    ELSE create_node_from_seed(
             passthrough_seed(function, function_name, function_call_token,
                              expected_type, arguments, env),
             function, function_name, function_call_token, expected_type,
             arguments, available_parameters, env)

\* Compiler::create_node_from_function for a function that is not cond:
\* `found` is what callable_functions holds for its name.
create_node_from_callable(found, function_name, function_call_token, expected_type, arguments, available_parameters, env) ==
    IF ~found.some
    THEN CompileError(function_call_token, "function is not defined")
    ELSE create_node_from_call(found.v, function_name, function_call_token,
                               expected_type, arguments, available_parameters,
                               env)

\* Compiler::create_node_from_function
create_node_from_function(function_name, function_call_token, expected_type, arguments, available_parameters, env) ==
    IF function_name = "cond"
    THEN IF Len(arguments) = 0
         THEN CompileError(function_call_token,
                  "cond requires at least one set of expressions")
         ELSE IF \E i \in 1..Len(arguments) : cond_fail(arguments[i])
         THEN CompileError(
                  arguments[CHOOSE i \in 1..Len(arguments) :
                             /\ cond_fail(arguments[i])
                             /\ \A j \in 1..(i - 1) : ~cond_fail(arguments[j])],
                  "cond requires each parameter to be (<condition> <expression(s)>)")
         ELSE create_node_from_tokens(cond_if_tree(arguments, 1), expected_type,
                                      available_parameters, env)
    ELSE create_node_from_callable(callable_functions_get(env, function_name),
                                   function_name, function_call_token,
                                   expected_type, arguments,
                                   available_parameters, env)


(***************************************************************************)
(* digest_tokens: the top-level classifier                                 *)
(***************************************************************************)
\* The (global <type> <name> <expression>) arm, with the global's type
\* looked up.
classify_typed_global(token, value_type) ==
    LET children == token.children.v
        global_name_token == children[3]
        value_type_token == children[2]
    IN  IF global_name_token.children.some
        THEN CompileError(global_name_token,
                 "expected global name, got a block instead")
        ELSE IF value_type = Some("Passthrough")
        THEN CompileError(value_type_token, "cannot define globals of this type")
        ELSE IF ~value_type.some
        THEN CompileError(value_type_token, "expected global value type")
        ELSE Ok([kind |-> "global",
                 item |-> [name |-> lowercase_token(global_name_token),
                           value_type |-> value_type.v,
                           original_token |-> token,
                           node |-> DefaultNode]])

\* The (global <type> <name> <expression>) arm.
classify_global(token) ==
    IF Len(token.children.v) < 4
    THEN CompileError(token, "incomplete global definition")
    ELSE IF Len(token.children.v) > 4
    THEN CompileError(token.children.v[5], "extraneous token in global definition")
    ELSE classify_typed_global(
             token, from_str_underscore(lowercase_token(token.children.v[2])))

\* The script parameters with the well-shaped parameter token p pushed;
\* parameter_type is what its type name stands for.
parameter_pushed(before, p, parameter_type) ==
    IF ~parameter_type.some
    THEN CompileError(p, "expected parameter type")
    ELSE Ok(Append(before.v,
                   [name |-> lowercase_token(p.children.v[2]),
                    value_type |-> parameter_type.v,
                    original_token |-> p.children.v[2]]))

\* One pass of the loop over the (<type> <name>) script parameters of a
\* script header, for the parameter token p, after the passes that left
\* `before`.
classify_parameter(before, p) ==
    IF ~before.ok THEN before
    ELSE IF ~p.children.some
    THEN CompileError(p, "expected script parameter")
    ELSE IF \/ Len(p.children.v) # 2
            \/ p.children.v[1].children.some
            \/ p.children.v[2].children.some
    THEN CompileError(p,
             "script parameters should be in (<type> <name>) format")
    ELSE parameter_pushed(before, p,
                          from_str_underscore(p.children.v[1].string))

RECURSIVE classify_parameters(_, _)
\* The (<type> <name>) script parameters of a script header: the parameters
\* pushed after the first i parameter tokens, or the first error.
classify_parameters(parameter_tokens, i) ==
    IF i = 0 THEN Ok(<<>>)
    ELSE classify_parameter(classify_parameters(parameter_tokens, i - 1),
                            parameter_tokens[i])

\* The name and the parameters of a script whose parameters were classified.
script_with_parameters(inner_name_token, parameters) ==
    IF ~parameters.ok THEN parameters
    ELSE Ok([name |-> lowercase_token(inner_name_token),
             parameters |-> parameters.v])

\* The name of a script and its parameters, from the name token of the
\* header. `overflow_checks` is whether the build panics on an arithmetic
\* overflow (it wraps around otherwise).
script_name_and_parameters(name_token, script_type, max_script_parameters, overflow_checks) ==
    LET c == name_token.children.v
        inner_name_token == c[1]
        parameter_tokens == SliceFrom(c, 1)
        \* parameter_tokens.len() - 1 in usize: 0 - 1 wraps to usize::MAX, which
        \* is only compared with the parameter limit (the largest integer of
        \* the model checker stands for it)
        parameter_count ==
            IF Len(parameter_tokens) = 0 THEN 2147483647
            ELSE Len(parameter_tokens) - 1
    IN  IF ~name_token.children.some
        THEN Ok([name |-> lowercase_token(name_token), parameters |-> <<>>])
        ELSE IF max_script_parameters = 0
        THEN CompileError(name_token,
                 "function parameters are not supported in the target")
        ELSE IF script_type # "Static" /\ script_type # "Stub"
        THEN CompileError(name_token,
                 "script parameters can only be used in static or stub functions")
        ELSE IF inner_name_token.children.some
        THEN CompileError(inner_name_token,
                 "expected script name, got a block instead")
        ELSE IF Len(parameter_tokens) = 0 /\ overflow_checks
        THEN Panic("attempt to subtract with overflow")
        ELSE IF parameter_count > max_script_parameters
        THEN CompileError(inner_name_token,
                 "only the maximum of script parameter(s) are supported")
        ELSE script_with_parameters(
                 inner_name_token,
                 classify_parameters(parameter_tokens, Len(parameter_tokens)))

\* The names that no script may take.
reserved_name_check(name_token, named) ==
    IF ~named.ok THEN named
    ELSE IF named.v.name \in {"begin", "if", "cond"}
    THEN CompileError(name_token, "function cannot be overridden by a script")
    ELSE named

\* The name of a script and its parameters, checked.
classify_script_name(name_token, script_type, max_script_parameters, overflow_checks) ==
    reserved_name_check(
        name_token,
        script_name_and_parameters(name_token, script_type,
                                   max_script_parameters, overflow_checks))

\* The script of a header whose name, parameters (`named`) and return type
\* name were read.
classify_named_script(token, script_type, named, return_type) ==
    LET type_expected == ~always_returns_void(script_type)
        return_type_token == token.children.v[3]
    IN  IF ~named.ok THEN named
        ELSE IF type_expected /\ return_type = Some("Passthrough")
        THEN CompileError(return_type_token, "cannot define scripts of this type")
        ELSE IF type_expected /\ ~return_type.some
        THEN CompileError(return_type_token, "expected script return value type")
        ELSE Ok([kind |-> "script",
                 item |-> [name |-> named.v.name,
                           return_type |-> IF type_expected THEN return_type.v
                                           ELSE "Void",
                           script_type |-> script_type,
                           original_token |-> token,
                           parameters |-> named.v.parameters,
                           node |-> DefaultNode]])

\* The (script <type> [<return type>] <name> <expression(s)>) arm, with the
\* script's type looked up.
classify_typed_script(token, script_type, max_script_parameters, overflow_checks) ==
    IF ~script_type.some
    THEN CompileError(token.children.v[2], "expected script type")
    ELSE IF Len(token.children.v) < expression_offset(script_type.v) + 1
    THEN CompileError(token, "incomplete script definition")
    ELSE classify_named_script(
             token, script_type.v,
             classify_script_name(
                 token.children.v[expression_offset(script_type.v)],
                 script_type.v, max_script_parameters, overflow_checks),
             from_str_underscore(lowercase_token(token.children.v[3])))

\* The (script <type> [<return type>] <name> <expression(s)>) arm.
classify_script(token, max_script_parameters, overflow_checks) ==
    IF Len(token.children.v) < 2
    THEN CompileError(token, "incomplete script definition, expected script type")
    ELSE classify_typed_script(
             token, ScriptType_from_str(lowercase_token(token.children.v[2])),
             max_script_parameters, overflow_checks)

\* One top-level token of the classifier's loop.
classify_token(token, max_script_parameters, overflow_checks) ==
    LET block_type == token.children.v[1]
        n == lowercase_token(block_type)
    IN  IF n = "global" THEN classify_global(token)
        ELSE IF n = "script"
        THEN classify_script(token, max_script_parameters, overflow_checks)
        ELSE CompileError(block_type, "expected 'global' or 'script'")

\* The scripts and globals with the classified block `one` pushed.
classified_pushed(before, one) ==
    IF ~before.ok THEN before
    ELSE IF ~one.ok THEN one
    ELSE IF one.v.kind = "global"
    THEN Ok([before.v EXCEPT !.globals = Append(before.v.globals, one.v.item)])
    ELSE Ok([before.v EXCEPT !.scripts = Append(before.v.scripts, one.v.item)])

RECURSIVE classify_first(_, _, _, _)
\* The classifier's loop over the first i drained tokens: the scripts and
\* globals pushed, or the first error.
classify_first(i, all_tokens, t, overflow_checks) ==
    IF i = 0 THEN Ok([scripts |-> <<>>, globals |-> <<>>])
    ELSE classified_pushed(
             classify_first(i - 1, all_tokens, t, overflow_checks),
             classify_token(all_tokens[i], maximum_script_parameters(t),
                            overflow_checks))

\* The classifier's loop over the drained tokens.
classify(all_tokens, t, overflow_checks) ==
    classify_first(Len(all_tokens), all_tokens, t, overflow_checks)


(***************************************************************************)
(* digest_tokens: analysis of the bodies                                   *)
(***************************************************************************)
\* The longest name in bytes that the analysis loops accept.
MaxNameLength == 31

\* The list with the node of its element i set to the analysed body.
node_set(before, i, node) ==
    IF ~node.ok THEN node
    ELSE Ok([before.v EXCEPT ![i].node = node.v])

\* A variant of analyse_global in which the error of a later global takes
\* the place of the error of an earlier one.
analyse_global_last(before, i, g, env) ==
    IF Len(g.name) > MaxNameLength
    THEN CompileError(g.original_token,
             "global name exceeds 31 characters in length")
    ELSE IF ~before.ok
    THEN LET node == create_node_from_function(
                         "begin", g.original_token, g.value_type,
                         SliceFrom(g.original_token.children.v, 3), <<>>, env)
         IN  IF node.ok THEN before ELSE node
    ELSE node_set(before, i,
                  create_node_from_function(
                      "begin", g.original_token, g.value_type,
                      SliceFrom(g.original_token.children.v, 3), <<>>, env))

\* One pass of "Parse all the globals", for global i: the body is analysed
\* as the parameters of an implicit begin expecting the global's type.
analyse_global(before, i, g, env) ==
    IF ~before.ok THEN before
    ELSE IF Len(g.name) > MaxNameLength
    THEN CompileError(g.original_token,
             "global name exceeds 31 characters in length")
    ELSE node_set(before, i,
                  create_node_from_function(
                      "begin", g.original_token, g.value_type,
                      SliceFrom(g.original_token.children.v, 3), <<>>, env))

RECURSIVE analyse_first_globals(_, _, _)
\* "Parse all the globals": the globals with the nodes of the first i of
\* them set, or the first error.
analyse_first_globals(i, global_list, env) ==
    IF i = 0 THEN Ok(global_list)
    ELSE analyse_global(analyse_first_globals(i - 1, global_list, env), i,
                        global_list[i], env)

\* "Parse all the globals"
analyse_globals(global_list, script_list, t) ==
    analyse_first_globals(Len(global_list), global_list,
                          callables(global_list, script_list, t))

\* One pass of "Now parse all the scripts", for script i: as analyse_global,
\* with the script's parameters as the locals and its return type as the
\* expected type.
analyse_script(before, i, s, env) ==
    IF ~before.ok THEN before
    ELSE IF Len(s.name) > MaxNameLength
    THEN CompileError(s.original_token,
             "script name exceeds 31 characters in length")
    ELSE node_set(before, i,
                  create_node_from_function(
                      "begin", s.original_token, s.return_type,
                      SliceFrom(s.original_token.children.v,
                                expression_offset(s.script_type)),
                      s.parameters, env))

RECURSIVE analyse_first_scripts(_, _, _)
\* "Now parse all the scripts": the scripts with the nodes of the first i of
\* them set, or the first error.
analyse_first_scripts(i, script_list, env) ==
    IF i = 0 THEN Ok(script_list)
    ELSE analyse_script(analyse_first_scripts(i - 1, script_list, env), i,
                        script_list[i], env)

\* "Now parse all the scripts"
analyse_scripts(global_list, script_list, t) ==
    analyse_first_scripts(Len(script_list), script_list,
                          callables(global_list, script_list, t))

(***************************************************************************)
(* digest_tokens: the post-pass                                            *)
(***************************************************************************)
\* A variant of unwrap_begin that stops after the first begin.
unwrap_begin_once(node) ==
    IF /\ node.node_type = FunctionCall(TRUE)
       /\ node.string_data.v = "begin"
       /\ Len(node.parameters.v) = 1
    THEN node.parameters.v[1]
    ELSE node

RECURSIVE unwrap_begin(_)
\* The while loop of optimize_begin: an engine call of begin with exactly
\* one parameter is replaced by that parameter.
unwrap_begin(node) ==
    IF /\ node.node_type = FunctionCall(TRUE)
       /\ node.string_data.v = "begin"
       /\ Len(node.parameters.v) = 1
    THEN unwrap_begin(node.parameters.v[1])
    ELSE node

RECURSIVE optimize_begin(_)
\* optimize_begin
optimize_begin(node_to_optimize) ==
    LET node == unwrap_begin(node_to_optimize)
    IN  IF node.node_type.kind = "FunctionCall"
        THEN [node EXCEPT !.parameters =
                 Some([i \in 1..Len(node.parameters.v) |->
                           optimize_begin(node.parameters.v[i])])]
        ELSE node

\* A variant of Remove that takes the last element away.
Remove_last(seq, i) == SubSeq(seq, 1, Len(seq) - 1)

\* The sequence without its element of 0-based index i (Vec::remove).
Remove(seq, i) == SubSeq(seq, 1, i) \o SubSeq(seq, i + 2, Len(seq))

\* A variant of stub_replacement that lets a script of any kind replace the
\* stub.
stub_replacement_by_any_kind(stub, other) ==
    IF other.return_type # stub.return_type
    THEN CompileError(stub.original_token,
             "cannot replace stub script with static script of another type")
    ELSE Ok(TRUE)

\* A variant of stub_replacement that lets a static script of any return
\* type replace the stub.
stub_replacement_of_any_type(stub, other) ==
    IF other.script_type # "Static"
    THEN CompileError(stub.original_token,
             "cannot replace stub script with non-static script")
    ELSE Ok(TRUE)

\* What a stub and the first other script of its name make of the pass: an
\* error unless the other is a static script of the stub's return type.
stub_replacement(stub, other) ==
    IF other.script_type # "Static"
    THEN CompileError(stub.original_token,
             "cannot replace stub script with non-static script")
    ELSE IF other.return_type # stub.return_type
    THEN CompileError(stub.original_token,
             "cannot replace stub script with static script of another type")
    ELSE Ok(TRUE)

\* A variant of remove_stubs_scan that restarts the loop with the stub left
\* in the list.
remove_stubs_scan_keeping(script_list) ==
    IF \E i, j \in 1..Len(script_list) :
          /\ script_list[i].script_type = "Stub"
          /\ j # i
          /\ script_list[i].name = script_list[j].name
    THEN [ok |-> TRUE, outcome |-> "removed", scripts |-> script_list]
    ELSE [ok |-> TRUE, outcome |-> "break", scripts |-> script_list]

\* One pass of 'remove_stubs_loop over the scripts: the first stub i (and for
\* it the first other script j of its name) decides. "removed" restarts the
\* loop, "break" leaves it.
remove_stubs_scan(script_list) ==
    LET script_count == Len(script_list)
        replaceable(i) ==
            /\ script_list[i].script_type = "Stub"
            /\ \E j \in 1..script_count :
                  j # i /\ script_list[i].name = script_list[j].name
    IN  IF ~\E i \in 1..script_count : replaceable(i)
        THEN [ok |-> TRUE, outcome |-> "break", scripts |-> script_list]
        ELSE
        LET i == CHOOSE i \in 1..script_count :
                     replaceable(i) /\ \A k \in 1..(i - 1) : ~replaceable(k)
            same(j) == j # i /\ script_list[i].name = script_list[j].name
            j == CHOOSE j \in 1..script_count :
                     same(j) /\ \A k \in 1..(j - 1) : ~same(k)
            replacement == stub_replacement(script_list[i], script_list[j])
        IN  IF ~replacement.ok THEN replacement
            ELSE [ok |-> TRUE, outcome |-> "removed",
                  scripts |-> Remove(script_list, i - 1)]

\* The first element, in the order of the nested loops, whose name a later
\* element repeats: Some(its 1-based place), or None.
first_duplicate(seq) ==
    LET repeated(i) == \E j \in (i + 1)..Len(seq) : seq[i].name = seq[j].name
        names == {seq[i].name : i \in 1..Len(seq)}
    IN  IF Cardinality(names) < Len(seq)
        THEN Some(CHOOSE i \in 1..Len(seq) :
                      repeated(i) /\ \A k \in 1..(i - 1) : ~repeated(k))
        ELSE None

\* A variant of check_duplicates that lets every list pass.
check_duplicates_skipped(script_list, global_list) == Ok(TRUE)

\* "Ensure there are no duplicate scripts or globals"
check_duplicates(script_list, global_list) ==
    IF first_duplicate(script_list).some
    THEN CompileError(script_list[first_duplicate(script_list).v].original_token,
             "multiple scripts defined")
    ELSE IF first_duplicate(global_list).some
    THEN CompileError(global_list[first_duplicate(global_list).v].original_token,
             "multiple globals defined")
    ELSE Ok(TRUE)

\* i16::MAX
I16_MAX == 32767

\* "Do we exceed the maximum number of scripts?": the error is positioned at
\* scripts[i16::MAX as usize + 1], and indexing a Vec out of its bounds
\* panics.
check_limit(script_list) ==
    LET final_script_count == Len(script_list)
    IN  IF final_script_count > I16_MAX
        THEN IF I16_MAX + 1 < final_script_count
             THEN CompileError(script_list[I16_MAX + 2].original_token,
                      "maximum script limit exceeded")
             ELSE Panic("index out of bounds")
        ELSE Ok(TRUE)

\* A variant of by_index_get that finds every name at position 0.
by_index_get_zero(seq, name) ==
    IF \E i \in 1..Len(seq) : seq[i].name = name
    THEN Some(0)
    ELSE None

\* "Find the script and global indices": scripts_by_index.get(name) and
\* globals_by_index.get(name); a later insert of a name replaces the earlier.
by_index_get(seq, name) ==
    IF \E i \in 1..Len(seq) : seq[i].name = name
    THEN Some((CHOOSE i \in 1..Len(seq) :
                  /\ seq[i].name = name
                  /\ \A j \in (i + 1)..Len(seq) : seq[j].name # name) - 1)
    ELSE None

\* The index that find_global_script_indices_for_node gives an engine call:
\* that of the first catalog entry with the name.
engine_function_index(name, t) ==
    IF \E i \in 1..Len(ALL_FUNCTIONS) : ALL_FUNCTIONS[i].name = name
    THEN index_for_target(
             ALL_FUNCTIONS[CHOOSE i \in 1..Len(ALL_FUNCTIONS) :
                 /\ ALL_FUNCTIONS[i].name = name
                 /\ \A j \in 1..(i - 1) : ALL_FUNCTIONS[j].name # name].availability,
             t)
    ELSE None

RECURSIVE find_global_script_indices_for_node(_, _, _, _, _)
\* find_global_script_indices_for_node, where every unwrap() succeeds (see
\* indices_unwrap_none). An index of a script is cast from i16 to u16.
find_global_script_indices_for_node(node, function_parameters, script_list, global_list, t) ==
    IF node.node_type = Primitive("Static")
    THEN IF node.value_type = "Script"
         THEN [node EXCEPT !.data =
                  Some(NodeData("Short", by_index_get(script_list, node.string_data.v).v))]
         ELSE node
    ELSE IF node.node_type = Primitive("Local")
    THEN [node EXCEPT !.data =
             Some(NodeData("Long", parameter_index(node.string_data.v,
                                                   function_parameters).v))]
    ELSE IF node.node_type = Primitive("Global")
    THEN IF by_index_get(global_list, node.string_data.v).some
         THEN [node EXCEPT !.data =
                  Some(NodeData("Long", by_index_get(global_list, node.string_data.v).v))]
         ELSE node
    ELSE [node EXCEPT
             !.index = IF node.node_type.is_engine_function
                       THEN engine_function_index(node.string_data.v, t)
                       ELSE Some(by_index_get(script_list, node.string_data.v).v),
             !.parameters =
                 Some([i \in 1..Len(node.parameters.v) |->
                          find_global_script_indices_for_node(
                              node.parameters.v[i], function_parameters,
                              script_list, global_list, t)])]

RECURSIVE indices_unwrap_none(_, _, _)
\* Does an unwrap() of find_global_script_indices_for_node meet a None in
\* the tree (a script or a parameter that is not there)?
indices_unwrap_none(node, function_parameters, script_list) ==
    IF node.node_type = Primitive("Static")
    THEN /\ node.value_type = "Script"
         /\ ~(node.string_data.some
              /\ by_index_get(script_list, node.string_data.v).some)
    ELSE IF node.node_type = Primitive("Local")
    THEN ~parameter_index(node.string_data.v, function_parameters).some
    ELSE IF node.node_type = Primitive("Global") THEN FALSE
    ELSE \/ /\ ~node.node_type.is_engine_function
            /\ ~by_index_get(script_list, node.string_data.v).some
         \/ \E i \in 1..Len(node.parameters.v) :
               indices_unwrap_none(node.parameters.v[i], function_parameters,
                                   script_list)

RECURSIVE engine_index_none(_)
\* Is there an engine call without an index in the tree (what
\* debug_assert!(node.index != None) checks)?
engine_index_none(node) ==
    /\ node.node_type.kind = "FunctionCall"
    /\ \/ node.node_type.is_engine_function /\ node.index = None
       \/ \E i \in 1..Len(node.parameters.v) :
             engine_index_none(node.parameters.v[i])

RECURSIVE find_uninitialized_globals(_, _)
\* find_uninitialized_globals: the warnings it pushes for the node, in order.
find_uninitialized_globals(node, global_list) ==
    IF node.node_type = Primitive("Global")
    THEN IF \E g \in Range(global_list) : g.name = node.string_data.v
         THEN <<[message |-> "use of uninitialized global",
                 global_name |-> node.string_data.v,
                 file |-> node.file, line |-> node.line, column |-> node.column]>>
         ELSE <<>>
    ELSE IF node.node_type.kind = "FunctionCall"
    THEN LET pushed[i \in 0..Len(node.parameters.v)] ==
                 IF i = 0 THEN <<>>
                 ELSE pushed[i - 1]
                      \o find_uninitialized_globals(node.parameters.v[i], global_list)
         IN  pushed[Len(node.parameters.v)]
    ELSE <<>>

RECURSIVE no_passthrough(_)
\* no_passthrough: do both of its assertions hold for every node of the tree?
no_passthrough(node) ==
    /\ node.value_type # "Passthrough"
    /\ node.value_type # "Unparsed"
    /\ node.parameters.some =>
          \A i \in 1..Len(node.parameters.v) : no_passthrough(node.parameters.v[i])


(***************************************************************************)
(* digest_tokens: the emitter                                              *)
(***************************************************************************)
\* struct CompiledNode, positioned at the analysed node
CompiledNode(node_type, value_type, data, string_data, index, node) ==
    [node_type |-> node_type, value_type |-> value_type, data |-> data,
     string_data |-> string_data, next_node |-> None, index |-> index,
     file |-> node.file, column |-> node.column, line |-> node.line]

\* A variant of set_next_node that leaves the node unlinked.
set_next_node_unlinked(node_array, previous_node, index) == node_array

\* nodes[previous_node].next_node = Some(index)
set_next_node(node_array, previous_node, index) ==
    [node_array EXCEPT ![previous_node + 1].next_node = Some(index)]

RECURSIVE make_compiled_node_from_node(_, _)
\* make_compiled_node_from_node: the node array after the node's tree was
\* pushed onto it, and the index the call returns.
make_compiled_node_from_node(node, node_array) ==
    IF node.node_type.kind = "Primitive"
    THEN [node_array |->
              Append(node_array,
                     CompiledNode(node.node_type, node.value_type, node.data,
                                  node.string_data, node.index, node)),
          index |-> Len(node_array)]
    ELSE
    LET parameters == node.parameters.v
        function_call_node == Len(node_array)
        function_name_node == function_call_node + 1
        with_call ==
            node_array
            \o <<CompiledNode(node.node_type, node.value_type,
                              Some(NodeData("NodeOffset", function_name_node)),
                              None, node.index, node),
                 CompiledNode(Primitive("Static"), "FunctionName",
                              Some(NodeData("Long", 0)),
                              node.string_data, node.index, node)>>
        \* the array and previous_node after the first i parameters
        linked[i \in 0..Len(parameters)] ==
            IF i = 0
            THEN [node_array |-> with_call, previous_node |-> function_name_node]
            ELSE
            LET before == linked[i - 1]
                made == make_compiled_node_from_node(parameters[i],
                                                     before.node_array)
            IN  [node_array |->
                     set_next_node(made.node_array, before.previous_node,
                                   made.index),
                 previous_node |-> made.index]
    IN  [node_array |-> linked[Len(parameters)].node_array,
         index |-> function_call_node]

\* The loops that build compiled_scripts, compiled_globals and nodes: all
\* scripts in order, then all globals.
\*
\* One pass of the loop over the scripts: the script's nodes are appended to
\* the node array and the compiled script holds the index of its root.
compile_script(before, s) ==
    LET made == make_compiled_node_from_node(s.node, before.nodes)
    IN  [compiled |->
             Append(before.compiled,
                    [name |-> s.name, value_type |-> s.return_type,
                     script_type |-> s.script_type,
                     first_node |-> made.index,
                     parameters |->
                         [k \in 1..Len(s.parameters) |->
                             [name |-> s.parameters[k].name,
                              value_type |-> s.parameters[k].value_type,
                              file |-> s.parameters[k].original_token.file,
                              column |-> s.parameters[k].original_token.column,
                              line |-> s.parameters[k].original_token.line]],
                     file |-> s.original_token.file,
                     column |-> s.original_token.column,
                     line |-> s.original_token.line]),
         nodes |-> made.node_array]

\* The passes first..last of the loop over the scripts, in order (the range is
\* halved so that the evaluation nests no deeper than its logarithm).
RECURSIVE compile_scripts(_, _, _, _)
compile_scripts(before, script_list, first, last) ==
    IF first > last THEN before
    ELSE IF first = last THEN compile_script(before, script_list[first])
    ELSE CHOOSE all \in
             {compile_scripts(half, script_list, (first + last) \div 2 + 1, last) :
                 half \in {compile_scripts(before, script_list, first,
                                       (first + last) \div 2)}} : TRUE

\* One pass of the loop over the globals.
compile_global(before, g) ==
    LET made == make_compiled_node_from_node(g.node, before.nodes)
    IN  [compiled |->
             Append(before.compiled,
                    [name |-> g.name, value_type |-> g.value_type,
                     first_node |-> made.index,
                     file |-> g.original_token.file,
                     column |-> g.original_token.column,
                     line |-> g.original_token.line]),
         nodes |-> made.node_array]

\* The passes first..last of the loop over the globals, in order.
RECURSIVE compile_globals(_, _, _, _)
compile_globals(before, global_list, first, last) ==
    IF first > last THEN before
    ELSE IF first = last THEN compile_global(before, global_list[first])
    ELSE CHOOSE all \in
             {compile_globals(half, global_list, (first + last) \div 2 + 1, last) :
                 half \in {compile_globals(before, global_list, first,
                                       (first + last) \div 2)}} : TRUE

\* The scripts' nodes come first in the node array, the globals' after them.
compiled_output(all_scripts, all_globals) ==
    [scripts |-> all_scripts.compiled, globals |-> all_globals.compiled,
     nodes |-> all_globals.nodes]

compile_output_globals(all_scripts, global_list) ==
    compiled_output(all_scripts,
                    compile_globals([compiled |-> <<>>, nodes |-> all_scripts.nodes],
                                    global_list, 1, Len(global_list)))

\* A variant of compile_output that makes the nodes of the globals before
\* the nodes of the scripts.
compile_output_globals_first(script_list, global_list) ==
    LET all_globals ==
            compile_globals([compiled |-> <<>>, nodes |-> <<>>], global_list, 1,
                            Len(global_list))
        all_scripts ==
            compile_scripts([compiled |-> <<>>, nodes |-> all_globals.nodes],
                            script_list, 1, Len(script_list))
    IN  [scripts |-> all_scripts.compiled, globals |-> all_globals.compiled,
         nodes |-> all_scripts.nodes]

compile_output(script_list, global_list) ==
    compile_output_globals(
        compile_scripts([compiled |-> <<>>, nodes |-> <<>>], script_list, 1,
                        Len(script_list)),
        global_list)


(***************************************************************************)
(* The inputs of the model: HSC files of one top-level block each          *)
(***************************************************************************)
\* (script <type> <return type> <name> <expression(s)>)
TypedScript(script_type, return_type, name, expressions) ==
    Block(<<Leaf("script"), Leaf(script_type), Leaf(return_type), name>>
          \o expressions)

\* (script <type> <name> <expression(s)>)
VoidScript(script_type, name, expressions) ==
    Block(<<Leaf("script"), Leaf(script_type), name>> \o expressions)

\* (global <type> <name> <expression>)
GlobalDefinition(value_type, name, expression) ==
    Block(<<Leaf("global"), Leaf(value_type), Leaf(name), expression>>)

\* (<function> <parameters>)
Call(function, parameters) == Block(<<Leaf(function)>> \o parameters)

\* Names of 31 and of 32 bytes.
Name31 == "a_script_name_that_has_31_bytes"
Name32 == "a_script_name_that_has_32_bytes_"
GlobalName31 == "a_global_name_that_has_31_bytes"
GlobalName32 == "a_global_name_that_has_32_bytes_"

Sources ==
    << [filename |-> "hello_world.hsc",
        trees |-> <<TypedScript("static", "void", Leaf("hello_world"),
                     <<Call("print", <<Leaf("hello world")>>)>>)>>],
       [filename |-> "eleven.hsc",
        trees |-> <<GlobalDefinition("short", "eleven",
                     Call("+", <<Leaf("5"), Leaf("6")>>))>>],
       [filename |-> "zero.hsc",
        trees |-> <<GlobalDefinition("short", "zero",
                     Call("+", <<Leaf("eleven"), Leaf("1")>>))>>],
       [filename |-> "stub_s.hsc",
        trees |-> <<TypedScript("stub", "short", Leaf("s"), <<Leaf("1")>>)>>],
       [filename |-> "static_s.hsc",
        trees |-> <<TypedScript("static", "short", Leaf("s"),
                     <<Call("wake", <<Leaf("s")>>), Call("s", <<>>)>>)>>],
       [filename |-> "static_real_s.hsc",
        trees |-> <<TypedScript("static", "real", Leaf("s"), <<Leaf("2")>>)>>],
       [filename |-> "dormant_s.hsc",
        trees |-> <<VoidScript("dormant", Leaf("s"),
                     <<Call("print", <<Leaf("a")>>)>>)>>],
       [filename |-> "startup_t.hsc",
        trees |-> <<VoidScript("startup", Leaf("t"),
                     <<Call("s", <<>>), Call("wake", <<Leaf("s")>>)>>)>>],
       [filename |-> "half.hsc",
        trees |-> <<TypedScript("static", "real",
                     Block(<<Leaf("half"),
                             Block(<<Leaf("real"), Leaf("a")>>),
                             Block(<<Leaf("real"), Leaf("b")>>)>>),
                     <<Call("+", <<Leaf("b"), Leaf("a")>>)>>)>>],
       [filename |-> "gbx_only.hsc",
        trees |-> <<TypedScript("static", "void", Leaf("g"),
                     <<Call("gbx_only", <<>>)>>)>>],
       [filename |-> "unparsed.hsc",
        trees |-> <<TypedScript("static", "unparsed", Leaf("u"),
                     <<Call("print", <<Leaf("a")>>),
                       Call("print", <<Leaf("b")>>)>>)>>],
       [filename |-> "passthrough.hsc",
        trees |-> <<TypedScript("static", "void", Leaf("p"),
                     <<Call("=", <<Call("begin", <<Call("game_save", <<>>),
                                                   Leaf("2")>>),
                                   Leaf("3")>>)>>)>>],
       [filename |-> "continuous_c.hsc",
        trees |-> <<VoidScript("continuous", Leaf("c"),
                     <<Call("if", <<Call("=", <<Leaf("1"), Leaf("2")>>),
                                    Call("print", <<Leaf("a")>>),
                                    Call("game_save", <<>>)>>)>>)>>],
       [filename |-> "name31.hsc",
        trees |-> <<TypedScript("static", "void", Leaf(Name31),
                     <<Call("game_save", <<>>)>>)>>],
       [filename |-> "name32.hsc",
        trees |-> <<TypedScript("static", "void", Leaf(Name32),
                     <<Call("game_save", <<>>)>>)>>],
       [filename |-> "global31.hsc",
        trees |-> <<GlobalDefinition("boolean", GlobalName31, Leaf("true"))>>],
       [filename |-> "global32.hsc",
        trees |-> <<GlobalDefinition("boolean", GlobalName32, Leaf("true"))>>],
       [filename |-> "mixed_case.hsc",
        trees |-> <<Block(<<Leaf("Script"), Leaf("Static"), Leaf("Void"),
                         Leaf("Hello"),
                         Call("Print", <<Leaf("hello world")>>)>>)>>],
       [filename |-> "mixed_case_global.hsc",
        trees |-> <<Block(<<Leaf("Global"), Leaf("Short"), Leaf("Eleven"),
                         Leaf("3")>>)>>],
       [filename |-> "mission.hsc",
        trees |-> <<TypedScript("stub", "short", Leaf("s"), <<Leaf("1")>>),
                    TypedScript("static", "void", Leaf("r"),
                        <<Call("game_save", <<>>)>>),
                    GlobalDefinition("short", "zero",
                        Call("+", <<Leaf("eleven"), Leaf("1")>>)),
                    GlobalDefinition("short", "eleven",
                        Call("+", <<Leaf("5"), Leaf("6")>>)),
                    VoidScript("startup", Leaf("t"),
                        <<Call("s", <<>>), Call("wake", <<Leaf("s")>>)>>),
                    TypedScript("stub", "void", Leaf("r"),
                        <<Call("print", <<Leaf("r")>>)>>),
                    TypedScript("static", "short", Leaf("s"),
                        <<Call("wake", <<Leaf("s")>>), Call("s", <<>>)>>)>>] >>

(***************************************************************************)
(* The state machine                                                       *)
(***************************************************************************)
\* Compiler::new
Init ==
    /\ target \in CompileTarget
    /\ tokens = <<>>
    /\ files = <<>>
    /\ warnings = <<>>
    /\ pc = "idle"
    /\ drained = <<>>
    /\ scripts = <<>>
    /\ globals = <<>>
    /\ result = [status |-> "none"]

\* Compiler::read_script_data of a file of the input universe: its blocks,
\* one a line, are appended to the token list with the file's index, its
\* name to the file table.
read_script_data(source) ==
    /\ pc = "idle"
    /\ Len(files) < MaxFiles
    /\ tokens' = tokens \o [line \in 1..Len(source.trees) |->
                               MakeToken(source.trees[line], Len(files), line,
                                         1).token]
    /\ files' = Append(files, source.filename)
    /\ result' = [status |-> "read"]
    /\ drained' = <<>>
    /\ UNCHANGED <<target, warnings, pc, scripts, globals>>

\* digest_tokens returns Err(error), or panics.
Fail(error) ==
    /\ pc' = IF error.panic THEN "panicked" ELSE "idle"
    /\ result' = [status |-> IF error.panic THEN "panic" ELSE "error",
                  error |-> error]
    /\ scripts' = <<>>
    /\ globals' = <<>>

\* digest_tokens is called: the tokens are drained and classified.
DigestClassify ==
    /\ pc = "idle"
    /\ drained' = tokens
    /\ tokens' = <<>>
    /\ \E overflow_checks \in BOOLEAN :
          LET classified == classify(tokens, target, overflow_checks)
          IN  IF classified.ok
              THEN /\ scripts' = classified.v.scripts
                   /\ globals' = classified.v.globals
                   /\ pc' = "analyse_globals"
                   /\ result' = [status |-> "running"]
              ELSE Fail(classified)
    /\ UNCHANGED <<target, files, warnings>>

\* "Parse all the globals"
AnalyseGlobals ==
    /\ pc = "analyse_globals"
    /\ LET parsed == analyse_globals(globals, scripts, target)
       IN  IF parsed.ok
           THEN /\ globals' = parsed.v
                /\ pc' = "analyse_scripts"
                /\ UNCHANGED <<scripts, result>>
           ELSE Fail(parsed)
    /\ UNCHANGED <<target, tokens, files, warnings, drained>>

\* "Now parse all the scripts"
AnalyseScripts ==
    /\ pc = "analyse_scripts"
    /\ LET parsed == analyse_scripts(globals, scripts, target)
       IN  IF parsed.ok
           THEN /\ scripts' = parsed.v
                /\ pc' = "optimize_begin"
                /\ UNCHANGED <<globals, result>>
           ELSE Fail(parsed)
    /\ UNCHANGED <<target, tokens, files, warnings, drained>>

\* "Optimize 'begin' nodes with only one call"
OptimizeBegin ==
    /\ pc = "optimize_begin"
    /\ globals' = [i \in 1..Len(globals) |->
                      [globals[i] EXCEPT !.node = optimize_begin(globals[i].node)]]
    /\ scripts' = [i \in 1..Len(scripts) |->
                      [scripts[i] EXCEPT !.node = optimize_begin(scripts[i].node)]]
    /\ pc' = "remove_stubs"
    /\ UNCHANGED <<target, tokens, files, warnings, drained, result>>

\* "Remove stubbed scripts": one pass of 'remove_stubs_loop.
RemoveStubs ==
    /\ pc = "remove_stubs"
    /\ LET scan == remove_stubs_scan(scripts)
       IN  IF scan.ok
           THEN /\ scripts' = scan.scripts
                /\ pc' = IF scan.outcome = "removed" THEN "remove_stubs"
                         ELSE "check_duplicates"
                /\ UNCHANGED <<globals, result>>
           ELSE Fail(scan)
    /\ UNCHANGED <<target, tokens, files, warnings, drained>>

\* "Ensure there are no duplicate scripts or globals"
CheckDuplicates ==
    /\ pc = "check_duplicates"
    /\ LET checked == check_duplicates(scripts, globals)
       IN  IF checked.ok
           THEN pc' = "check_limit" /\ UNCHANGED <<scripts, globals, result>>
           ELSE Fail(checked)
    /\ UNCHANGED <<target, tokens, files, warnings, drained>>

\* "Do we exceed the maximum number of scripts?"
CheckLimit ==
    /\ pc = "check_limit"
    /\ LET checked == check_limit(scripts)
       IN  IF checked.ok
           THEN pc' = "find_indices" /\ UNCHANGED <<scripts, globals, result>>
           ELSE Fail(checked)
    /\ UNCHANGED <<target, tokens, files, warnings, drained>>

\* A variant of uninitialized_globals that looks for the globals declared
\* after the one whose initializer it scans only.
RECURSIVE uninitialized_globals_later(_, _, _, _)
uninitialized_globals_later(global_nodes, global_list, first, last) ==
    IF first > last THEN <<>>
    ELSE IF first = last
    THEN find_uninitialized_globals(global_nodes[first].node,
                                    SliceFrom(global_list, first))
    ELSE CHOOSE pushed \in
             {uninitialized_globals_later(global_nodes, global_list, first,
                                          middle)
              \o uninitialized_globals_later(global_nodes, global_list,
                                             middle + 1, last) :
                 middle \in {(first + last) \div 2}} : TRUE

\* "Detect uninitialized globals": the warnings that the passes first..last
\* of the loop over the globals push, in order.
RECURSIVE uninitialized_globals(_, _, _, _)
uninitialized_globals(global_nodes, global_list, first, last) ==
    IF first > last THEN <<>>
    ELSE IF first = last
    THEN find_uninitialized_globals(global_nodes[first].node,
                                    SliceFrom(global_list, first - 1))
    ELSE CHOOSE pushed \in
             {uninitialized_globals(global_nodes, global_list, first, middle)
              \o uninitialized_globals(global_nodes, global_list, middle + 1,
                                       last) :
                 middle \in {(first + last) \div 2}} : TRUE

\* "Find the script and global indices" and "Detect uninitialized globals"
FindIndices ==
    /\ pc = "find_indices"
    /\ \E debug_assertions \in BOOLEAN :
          IF \/ \E i \in 1..Len(scripts) :
                   indices_unwrap_none(scripts[i].node, scripts[i].parameters,
                                       scripts)
             \/ \E i \in 1..Len(globals) :
                   indices_unwrap_none(globals[i].node, <<>>, scripts)
          THEN Fail(Panic("called Option::unwrap() on a None value"))
               /\ UNCHANGED warnings
          ELSE \E script_nodes \in
                      {[i \in 1..Len(scripts) |->
                           [scripts[i] EXCEPT !.node =
                               find_global_script_indices_for_node(
                                   scripts[i].node, scripts[i].parameters,
                                   scripts, globals, target)]]},
                  global_nodes \in
                      {[i \in 1..Len(globals) |->
                           [globals[i] EXCEPT !.node =
                               find_global_script_indices_for_node(
                                   globals[i].node, <<>>, scripts, globals,
                                   target)]]} :
                  IF /\ debug_assertions
                     /\ \/ \E i \in 1..Len(script_nodes) :
                              engine_index_none(script_nodes[i].node)
                        \/ \E i \in 1..Len(global_nodes) :
                              engine_index_none(global_nodes[i].node)
                  THEN Fail(Panic("assertion failed: node.index != None"))
                       /\ UNCHANGED warnings
                  ELSE /\ scripts' = script_nodes
                       /\ globals' = global_nodes
                       /\ warnings' =
                              warnings \o uninitialized_globals(global_nodes, globals,
                                                                1, Len(globals))
                       /\ pc' = "no_passthrough"
                       /\ UNCHANGED result
    /\ UNCHANGED <<target, tokens, files, drained>>

\* "We should NOT have any passthrough stuff remaining": the assertions are
\* compiled in with debug_assertions only.
NoPassthrough ==
    /\ pc = "no_passthrough"
    /\ \E debug_assertions \in BOOLEAN :
          IF /\ debug_assertions
             /\ \/ \E i \in 1..Len(scripts) : ~no_passthrough(scripts[i].node)
                \/ \E i \in 1..Len(globals) : ~no_passthrough(globals[i].node)
          THEN Fail(Panic("assertion failed: node.value_type != Passthrough"))
          ELSE pc' = "emit" /\ UNCHANGED <<scripts, globals, result>>
    /\ UNCHANGED <<target, tokens, files, warnings, drained>>

\* A variant of Emit that copies the files and the warnings into the output
\* and leaves them in the compiler.
Emit_copying ==
    /\ pc = "emit"
    /\ LET output == compile_output(scripts, globals)
       IN  result' = [status |-> "ok", scripts |-> output.scripts,
                      globals |-> output.globals, files |-> files,
                      warnings |-> warnings, nodes |-> output.nodes]
    /\ scripts' = <<>>
    /\ globals' = <<>>
    /\ pc' = "idle"
    /\ UNCHANGED <<target, tokens, drained, files, warnings>>

\* "All right, let's make our thing": digest_tokens returns Ok with the
\* compiled scripts, globals and nodes, the drained files and warnings.
Emit ==
    /\ pc = "emit"
    /\ LET output == compile_output(scripts, globals)
       IN  result' = [status |-> "ok", scripts |-> output.scripts,
                      globals |-> output.globals, files |-> files,
                      warnings |-> warnings, nodes |-> output.nodes]
    /\ files' = <<>>
    /\ warnings' = <<>>
    /\ scripts' = <<>>
    /\ globals' = <<>>
    /\ pc' = "idle"
    /\ UNCHANGED <<target, tokens, drained>>

Next ==
    \/ \E k \in 1..Len(Sources) : read_script_data(Sources[k])
    \/ DigestClassify
    \/ AnalyseGlobals
    \/ AnalyseScripts
    \/ OptimizeBegin
    \/ RemoveStubs
    \/ CheckDuplicates
    \/ CheckLimit
    \/ FindIndices
    \/ NoPassthrough
    \/ Emit

Spec == Init /\ [][Next]_vars


(***************************************************************************)
(* digest_tokens around the script limit                                   *)
(***************************************************************************)
\* How far below and above i16::MAX the script counts go, and how many stubs
\* wait for their replacement or stay without one.
MaxBelowLimit == 2
MaxAboveLimit == 2
MaxReplacedStubs == 3
MaxKeptStubs == 1

\* The most stubs among the scripts compiled with many globals.
MaxGlobalLimitStubs == 1

\* What the classifier, the analysis loop and optimize_begin make of the
\* block (script <type> void <name> (game_save)) on a line of a file.
AnalysedScript(script_type, name, file, line, t) ==
    LET token == MakeToken(TypedScript(script_type, "void", Leaf(name),
                                       <<Call("game_save", <<>>)>>),
                           file, line, 1).token
        classified ==
            classify_script(token, maximum_script_parameters(t), FALSE).v.item
        analysed == analyse_scripts(<<>>, <<classified>>, t).v[1]
    IN  [analysed EXCEPT !.node = optimize_begin(analysed.node)]

\* The scripts of many.hsc, one a line, each named by its line number: they
\* differ in their names and lines only.
ManyScript(analysed, name, file, line) ==
    [analysed EXCEPT
        !.name = name,
        !.node.line = line,
        !.node.file = file,
        !.original_token =
            MakeToken(TypedScript(IF analysed.script_type = "Stub" THEN "stub"
                                  ELSE "static",
                                  "void", Leaf(name), <<Call("game_save", <<>>)>>),
                      file, line, 1).token]

\* many.hsc as digest_tokens has analysed it, for each target.
ManyScripts ==
    LET most == I16_MAX + MaxAboveLimit
        analysed(t) ==
            LET static == AnalysedScript("static", "1", 1, 1, t)
            IN  SubSeq([i \in 1..most |-> ManyScript(static, ToString(i), 1, i)],
                       1, most)
    IN  [HaloCEA |-> analysed("HaloCEA"),
         HaloCustomEdition |-> analysed("HaloCustomEdition")]

\* digest_tokens before 'remove_stubs_loop, having analysed stubs.hsc and
\* many.hsc: the `replaced` stubs of stubs.hsc, then the first `count`
\* scripts of many.hsc, of which the last `kept` are stubs.
InitLimit ==
    /\ target \in CompileTarget
    /\ tokens = <<>>
    /\ files = <<"stubs.hsc", "many.hsc">>
    /\ warnings = <<>>
    /\ pc = "remove_stubs"
    /\ globals = <<>>
    /\ result = [status |-> "running"]
    /\ drained = <<>>
    /\ \E replaced \in 0..MaxReplacedStubs, kept \in 0..MaxKeptStubs,
          count \in (I16_MAX - MaxBelowLimit)..(I16_MAX + MaxAboveLimit) :
          LET stub == AnalysedScript("stub", "1", 0, 1, target)
          IN  scripts =
                  [i \in 1..replaced |-> ManyScript(stub, ToString(i), 0, i)]
                  \o SubSeq(ManyScripts[target], 1, count - kept)
                  \o [i \in 1..kept |->
                         ManyScript(stub, ToString(count - kept + i), 1,
                                    count - kept + i)]

NextLimit ==
    \/ RemoveStubs
    \/ CheckDuplicates
    \/ CheckLimit

SpecLimit == InitLimit /\ [][NextLimit]_vars

(***************************************************************************)
(* Compiles of scripts that take parameters                                *)
(***************************************************************************)
\* The most parameters a script header of the input names.
MaxParameters == 18

\* parameters.hsc for a count: (script static void (<count> (short 1) ...
\* (short <count>)) (game_save)), the script and its parameters named by
\* numbers. It is the one file of its compile.
ParameterSource(count) ==
    [filename |-> "parameters.hsc",
     trees |-> <<TypedScript(
                   "static", "void",
                   Block(<<Leaf(ToString(count))>>
                         \o [k \in 1..count |->
                                Block(<<Leaf("short"), Leaf(ToString(k))>>)]),
                   <<Call("game_save", <<>>)>>)>>]

NextParameters ==
    \/ \E count \in 0..MaxParameters :
          files = <<>> /\ read_script_data(ParameterSource(count))
    \/ DigestClassify
    \/ AnalyseGlobals
    \/ AnalyseScripts
    \/ OptimizeBegin
    \/ RemoveStubs
    \/ CheckDuplicates
    \/ CheckLimit
    \/ FindIndices
    \/ NoPassthrough
    \/ Emit

SpecParameters == Init /\ [][NextParameters]_vars

(***************************************************************************)
(* Compiles of one file each                                               *)
(***************************************************************************)
\* The files of the compiles of one file: globals that refer to each other,
\* begin and cond blocks, scripts and globals that are named as functions
\* and globals of the engine, a script with a parameter, and files with
\* errors in more than one form.
CaseSources ==
    << [filename |-> "uninitialized.hsc",
        trees |-> <<GlobalDefinition("short", "first",
                        Call("+", <<Leaf("second"), Leaf("first")>>)),
                    GlobalDefinition("short", "second",
                        Call("+", <<Leaf("first"), Leaf("1")>>)),
                    GlobalDefinition("boolean", "third",
                        Leaf("cheat_deathless_player")),
                    GlobalDefinition("short", "fourth",
                        Call("+", <<Leaf("first"),
                                    Call("+", <<Leaf("fourth"),
                                                Leaf("fourth")>>)>>)),
                    TypedScript("static", "short", Leaf("s"),
                        <<Call("+", <<Leaf("first"), Leaf("fourth")>>)>>)>>],
       [filename |-> "initialized.hsc",
        trees |-> <<GlobalDefinition("short", "first", Leaf("1")),
                    GlobalDefinition("short", "second",
                        Call("+", <<Leaf("first"), Leaf("first")>>)),
                    TypedScript("static", "short", Leaf("s"),
                        <<Leaf("second")>>)>>],
       [filename |-> "nested_begin.hsc",
        trees |-> <<TypedScript("static", "void", Leaf("nest"),
                        <<Call("begin",
                            <<Call("begin", <<Call("game_save", <<>>)>>)>>)>>),
                    GlobalDefinition("short", "one",
                        Call("begin", <<Call("begin", <<Leaf("1")>>)>>))>>],
       [filename |-> "begin_blocks.hsc",
        trees |-> <<TypedScript("static", "void", Leaf("blocks"),
                        <<Call("begin",
                            <<Call("game_save", <<>>),
                              Call("begin", <<Call("game_save", <<>>)>>),
                              Call("game_save", <<>>)>>)>>)>>],
       [filename |-> "cond.hsc",
        trees |-> <<TypedScript("static", "short", Leaf("c"),
                        <<Call("cond",
                            <<Block(<<Call("=", <<Leaf("1"), Leaf("2")>>),
                                      Leaf("3")>>),
                              Block(<<Call("=", <<Leaf("1"), Leaf("1")>>),
                                      Call("begin", <<Leaf("5")>>)>>)>>)>>),
                    TypedScript("static", "void", Leaf("nested"),
                        <<Call("begin",
                            <<Call("begin", <<Call("game_save", <<>>)>>)>>),
                          Call("game_save", <<>>)>>)>>],
       [filename |-> "begin_script.hsc",
        trees |-> <<TypedScript("static", "void",
                        Block(<<Leaf("begin"),
                                Block(<<Leaf("short"), Leaf("x")>>)>>),
                        <<Leaf("1")>>)>>],
       [filename |-> "parameter.hsc",
        trees |-> <<GlobalDefinition("short", "eleven", Leaf("3")),
                    GlobalDefinition("boolean", "flag", Leaf("true")),
                    TypedScript("static", "short",
                        Block(<<Leaf("f"),
                                Block(<<Leaf("short"), Leaf("x")>>)>>),
                        <<Call("print", <<Leaf("hello")>>),
                          Call("+", <<Leaf("x"), Leaf("eleven")>>)>>)>>],
       [filename |-> "shadow.hsc",
        trees |-> <<GlobalDefinition("short", "cheat_deathless_player",
                        Leaf("3")),
                    GlobalDefinition("short", "x", Leaf("5")),
                    TypedScript("static", "short",
                        Block(<<Leaf("game_save"),
                                Block(<<Leaf("real"), Leaf("x")>>)>>),
                        <<Leaf("x")>>),
                    TypedScript("static", "short", Leaf("t"),
                        <<Call("+", <<Call("game_save", <<Leaf("1")>>),
                                      Leaf("cheat_deathless_player"),
                                      Leaf("x")>>)>>)>>],
       [filename |-> "shadow_function.hsc",
        trees |-> <<GlobalDefinition("short", "cheat_deathless_player",
                        Leaf("3")),
                    TypedScript("static", "void", Leaf("game_save"),
                        <<Call("print", <<Leaf("hello")>>)>>),
                    TypedScript("static", "short", Leaf("t"),
                        <<Call("game_save", <<>>),
                          Leaf("cheat_deathless_player")>>)>>],
       [filename |-> "if_script.hsc",
        trees |-> <<TypedScript("static", "void", Leaf("if"),
                        <<Call("game_save", <<>>)>>)>>],
       [filename |-> "same_parameters.hsc",
        trees |-> <<TypedScript("static", "short",
                        Block(<<Leaf("f"),
                                Block(<<Leaf("short"), Leaf("x")>>),
                                Block(<<Leaf("real"), Leaf("X")>>)>>),
                        <<Leaf("x")>>)>>],
       [filename |-> "header_last.hsc",
        trees |-> <<TypedScript("static", "void", Leaf("a"),
                        <<Call("undefined_function", <<>>)>>),
                    GlobalDefinition("short", "g",
                        Call("undefined_function", <<>>)),
                    VoidScript("bad_kind", Leaf("b"),
                        <<Call("game_save", <<>>)>>)>>],
       [filename |-> "script_first.hsc",
        trees |-> <<TypedScript("static", "void", Leaf("a"),
                        <<Call("undefined_function", <<>>)>>),
                    GlobalDefinition("short", "g",
                        Call("undefined_function", <<>>))>>],
       [filename |-> "long_name.hsc",
        trees |-> <<TypedScript("static", "void", Leaf(Name32),
                        <<Call("game_save", <<>>)>>),
                    GlobalDefinition("short", "g",
                        Call("undefined_function", <<>>))>>],
       [filename |-> "two_globals.hsc",
        trees |-> <<GlobalDefinition("short", "g", Leaf("1")),
                    GlobalDefinition("short", "h",
                        Call("undefined_function", <<>>)),
                    GlobalDefinition("short", "k", Call("+", <<>>))>>],
       [filename |-> "two_scripts.hsc",
        trees |-> <<TypedScript("static", "void", Leaf("a"),
                        <<Call("game_save", <<>>)>>),
                    TypedScript("static", "void", Leaf("b"),
                        <<Call("+", <<>>)>>),
                    TypedScript("static", "void", Leaf("c"),
                        <<Call("undefined_function", <<>>)>>)>>],
       [filename |-> "duplicate_body.hsc",
        trees |-> <<TypedScript("static", "void", Leaf("a"),
                        <<Call("game_save", <<>>)>>),
                    TypedScript("static", "void", Leaf("a"),
                        <<Call("undefined_function", <<>>)>>),
                    TypedScript("stub", "short", Leaf("s"), <<Leaf("1")>>),
                    VoidScript("dormant", Leaf("s"),
                        <<Call("game_save", <<>>)>>)>>],
       [filename |-> "stub_duplicate.hsc",
        trees |-> <<GlobalDefinition("short", "g", Leaf("1")),
                    GlobalDefinition("short", "g", Leaf("2")),
                    TypedScript("stub", "short", Leaf("s"), <<Leaf("1")>>),
                    VoidScript("dormant", Leaf("s"),
                        <<Call("game_save", <<>>)>>)>>],
       [filename |-> "stubs.hsc",
        trees |-> <<TypedScript("stub", "short", Leaf("s"), <<Leaf("1")>>),
                    TypedScript("stub", "void", Leaf("r"),
                        <<Call("game_save", <<>>)>>),
                    TypedScript("static", "short", Leaf("s"), <<Leaf("2")>>),
                    TypedScript("stub", "void", Leaf("lone"),
                        <<Call("game_save", <<>>)>>),
                    TypedScript("static", "void", Leaf("r"),
                        <<Call("game_save", <<>>)>>)>>],
       [filename |-> "duplicates.hsc",
        trees |-> <<GlobalDefinition("short", "g", Leaf("1")),
                    GlobalDefinition("short", "g", Leaf("2")),
                    TypedScript("static", "void", Leaf("a"),
                        <<Call("game_save", <<>>)>>),
                    TypedScript("static", "void", Leaf("a"),
                        <<Call("game_save", <<>>)>>)>>] >>

NextCases ==
    \/ \E k \in 1..Len(CaseSources) :
          files = <<>> /\ read_script_data(CaseSources[k])
    \/ DigestClassify
    \/ AnalyseGlobals
    \/ AnalyseScripts
    \/ OptimizeBegin
    \/ RemoveStubs
    \/ CheckDuplicates
    \/ CheckLimit
    \/ FindIndices
    \/ NoPassthrough
    \/ Emit

SpecCases == Init /\ [][NextCases]_vars

\* The same compiles, with the loop of digest_tokens that removes the stubs
\* running on once it is entered: a pass that can be made is made.
FairSpecCases == SpecCases /\ WF_vars(RemoveStubs)

(***************************************************************************)
(* The analysis of one expression                                          *)
(***************************************************************************)
\* declarations.hsc: the script whose body is analysed, with two parameters
\* where the target has script parameters, and three globals.
Declarations(t) ==
    <<TypedScript("static", "real",
                  IF maximum_script_parameters(t) > 0
                  THEN Block(<<Leaf("half"),
                               Block(<<Leaf("real"), Leaf("a")>>),
                               Block(<<Leaf("short"), Leaf("b")>>)>>)
                  ELSE Leaf("half"),
                  <<Leaf("1")>>),
      GlobalDefinition("short", "eleven", Leaf("5")),
      GlobalDefinition("vehicle", "hog", Leaf("none")),
      GlobalDefinition("boolean", "flag", Leaf("cheat_deathless_player"))>>

\* The expressions that are analysed: names of parameters, of globals and of
\* an engine global, a literal, and calls of functions and of the script.
Expressions ==
    <<Leaf("a"), Leaf("b"), Leaf("eleven"), Leaf("Eleven"), Leaf("hog"),
      Leaf("flag"), Leaf("cheat_deathless_player"), Leaf("5"),
      Call("game_save", <<>>),
      Call("+", <<Leaf("1"), Leaf("2")>>),
      Call("=", <<Leaf("eleven"), Leaf("5")>>),
      Call("begin", <<Call("game_save", <<>>), Leaf("eleven")>>),
      Call("if", <<Call("=", <<Leaf("1"), Leaf("1")>>), Leaf("b"), Leaf("a")>>),
      Call("half", <<Leaf("1"), Leaf("2")>>),
      Call("=", <<Leaf("a"), Leaf("b")>>),
      Call("=", <<Leaf("1"), Leaf("2")>>),
      Call("=", <<Call("if", <<Leaf("flag"), Leaf("1"), Leaf("2")>>),
                  Leaf("eleven")>>),
      Call("game_save", <<Leaf("1")>>),
      Call("if", <<Leaf("flag")>>),
      Call("if", <<Leaf("flag"), Leaf("1")>>),
      Call("if", <<Leaf("flag"), Leaf("1"), Leaf("2"), Leaf("3")>>),
      Call("begin", <<>>),
      Call("+", <<Leaf("1"), Leaf("2"), Leaf("3")>>),
      Call("half", <<Leaf("1")>>),
      Call("half", <<Leaf("1"), Leaf("2"), Leaf("3")>>),
      Call("cond", <<Block(<<Leaf("flag"), Leaf("1")>>)>>),
      Call("cond", <<Block(<<Leaf("flag"), Leaf("1")>>),
                     Block(<<Call("=", <<Leaf("eleven"), Leaf("5")>>),
                             Call("game_save", <<>>), Leaf("2")>>)>>),
      Call("cond", <<Block(<<Leaf("flag"), Leaf("a"), Leaf("b")>>),
                     Block(<<Leaf("flag"), Leaf("eleven")>>),
                     Block(<<Leaf("flag"), Leaf("3")>>)>>),
      Call("cond", <<Block(<<Leaf("1"), Leaf("hog")>>),
                     Block(<<Leaf("flag"), Leaf("hog")>>)>>),
      Call("cond", <<>>),
      Call("cond", <<Leaf("flag")>>),
      Call("cond", <<Block(<<Leaf("flag")>>)>>),
      Call("cond", <<Block(<<Leaf("flag"), Leaf("1")>>), Leaf("flag")>>),
      Call("cond", <<Block(<<Leaf("missing"), Leaf("1")>>),
                     Block(<<Leaf("flag")>>)>>)>>

\* digest_tokens has classified declarations.hsc and analyses the body of
\* script `half`: create_node_from_tokens is about to be called on an
\* expression with an expected type.
InitAnalyse ==
    /\ target \in CompileTarget
    /\ files = <<"declarations.hsc">>
    /\ warnings = <<>>
    /\ drained = <<>>
    /\ pc = "analyse_expression"
    /\ \E classified \in
              {classify([line \in 1..Len(Declarations(target)) |->
                            MakeToken(Declarations(target)[line], 0, line, 1).token],
                        target, FALSE).v} :
          scripts = classified.scripts /\ globals = classified.globals
    /\ \E k \in 1..Len(Expressions), expected_type \in ValueType :
          /\ tokens = <<MakeToken(Expressions[k], 0, 1, 5).token>>
          /\ result = [status |-> "analysing", expected_type |-> expected_type]

\* The call of create_node_from_tokens returns.
AnalyseExpression ==
    /\ pc = "analyse_expression"
    /\ result' = [status |-> "analysed",
                  expected_type |-> result.expected_type,
                  node |-> create_node_from_tokens(
                               tokens[1], result.expected_type,
                               scripts[1].parameters,
                               callables(globals, scripts, target))]
    /\ pc' = "analysed"
    /\ UNCHANGED <<target, tokens, files, warnings, drained, scripts, globals>>

SpecAnalyse == InitAnalyse /\ [][AnalyseExpression]_vars

(***************************************************************************)
(* The conversion of one value type to another                             *)
(***************************************************************************)
\* can_convert_to is about to be called on a value type with another.
InitConvert ==
    /\ target = "HaloCEA"
    /\ tokens = <<>>
    /\ files = <<>>
    /\ warnings = <<>>
    /\ drained = <<>>
    /\ scripts = <<>>
    /\ globals = <<>>
    /\ pc = "can_convert_to"
    /\ \E from, to \in ValueType :
          result = [status |-> "converting", from |-> from, to |-> to]

\* The call of can_convert_to returns.
CanConvertTo ==
    /\ pc = "can_convert_to"
    /\ result' = [status |-> "converted", from |-> result.from,
                  to |-> result.to,
                  converts |-> can_convert_to(result.from, result.to)]
    /\ pc' = "converted"
    /\ UNCHANGED <<target, tokens, files, warnings, drained, scripts, globals>>

SpecConvert == InitConvert /\ [][CanConvertTo]_vars

(***************************************************************************)
(* The passes of digest_tokens after the analysis on many globals          *)
(***************************************************************************)
\* What digest_tokens has made of (global short <name> 0) at `line` of file
\* `file` before 'remove_stubs_loop: classified, analysed, its begin
\* collapsed.
AnalysedGlobal(name, file, line, t) ==
    LET token == MakeToken(GlobalDefinition("short", name, Leaf("0")),
                           file, line, 1).token
        classified == classify_global(token).v.item
        analysed == analyse_globals(<<classified>>, <<>>, t).v[1]
    IN  [analysed EXCEPT !.node = optimize_begin(analysed.node)]

\* The globals of many_globals.hsc, one a line, each named by its line
\* number: they differ in their names and lines only.
ManyGlobal(analysed, name, file, line) ==
    [analysed EXCEPT
        !.name = name,
        !.node.line = line,
        !.node.file = file,
        !.original_token =
            MakeToken(GlobalDefinition("short", name, Leaf("0")),
                      file, line, 1).token]

\* The first `count` globals of many_globals.hsc as digest_tokens has
\* analysed them.
ManyGlobals(count, t) ==
    LET analysed == AnalysedGlobal("1", 1, 1, t)
    IN  SubSeq([i \in 1..count |-> ManyGlobal(analysed, ToString(i), 1, i)],
               1, count)

\* digest_tokens before 'remove_stubs_loop, having analysed main.hsc and
\* many_globals.hsc: `replaced` stubs and the static scripts that replace
\* them, and the first `count` globals of many_globals.hsc.
InitGlobalLimit ==
    /\ target \in CompileTarget
    /\ tokens = <<>>
    /\ files = <<"main.hsc", "many_globals.hsc">>
    /\ warnings = <<>>
    /\ pc = "remove_stubs"
    /\ result = [status |-> "running"]
    /\ drained = <<>>
    /\ \E replaced \in 0..MaxGlobalLimitStubs,
          count \in (I16_MAX - MaxBelowLimit)..(I16_MAX + MaxAboveLimit) :
          /\ scripts =
                 [i \in 1..replaced |->
                     ManyScript(AnalysedScript("stub", "1", 0, 1, target),
                                ToString(i), 0, i)]
                 \o [i \in 1..replaced |->
                        ManyScript(AnalysedScript("static", "1", 0, 1, target),
                                   ToString(i), 0, replaced + i)]
          /\ globals = ManyGlobals(count, target)

NextGlobalLimit ==
    \/ RemoveStubs
    \/ CheckDuplicates
    \/ CheckLimit
    \/ FindIndices
    \/ NoPassthrough
    \/ Emit

SpecGlobalLimit == InitGlobalLimit /\ [][NextGlobalLimit]_vars

(***************************************************************************)
(* Compiler::tokenize_script_data: the bytes of a file become tokens        *)
(***************************************************************************)
\* enum CompileEncoding
CompileEncoding == {"UTF8", "Windows1252"}

\* The byte 0, and a byte that is no UTF-8 (0xFF, which Windows-1252 reads
\* as a letter).
NUL == "0x00"
InvalidByte == "0xFF"

\* The files of the reads, byte by byte: files of blocks, comments and
\* quoted tokens, and files with each of the faults of a read.
ByteScripts ==
    << [filename |-> "call.hsc",
        script |->
            <<"(", "a", " ", "(", "b", ")", " ", "\"", "c", " ", "d",
            "\"", ")", "\n">>],
       [filename |-> "two.hsc",
        script |->
            <<"(", "a", ")", "\n", "(", "b", " ", "c", ")">>],
       [filename |-> "comment.hsc",
        script |->
            <<";", " ", "(", "\n", "(", "a", ")", " ", ";", "*", " ",
            ")", " ", "*", ";", " ", "(", "b", ")">>],
       [filename |-> "nothing.hsc",
        script |->
            <<>>],
       [filename |-> "comment_only.hsc",
        script |->
            <<";", "*", "a">>],
       [filename |-> "null_last.hsc",
        script |->
            <<"(", "a", ")", NUL>>],
       [filename |-> "null_inside.hsc",
        script |->
            <<"(", "a", NUL, ")">>],
       [filename |-> "open_quote.hsc",
        script |->
            <<"(", "a", " ", "\"", "b", ")">>],
       [filename |-> "open_token.hsc",
        script |->
            <<"(", "a", ")", " ", "b">>],
       [filename |-> "byte.hsc",
        script |->
            <<"(", "a", InvalidByte, ")">>],
       [filename |-> "open_block.hsc",
        script |->
            <<"(", "a", " ", "(", "b", ")">>],
       [filename |-> "empty_block.hsc",
        script |->
            <<"(", "a", " ", "(", ")", ")">>],
       [filename |-> "outside.hsc",
        script |->
            <<"a", " ", "(", "b", ")">>],
       [filename |-> "outside_after.hsc",
        script |->
            <<"(", "a", ")", " ", "b", "\n">>],
       [filename |-> "close_first.hsc",
        script |->
            <<")", " ", "(", "a", ")">>] >>

\* char::is_whitespace for the bytes of the files
is_whitespace(c) == c \in {" ", "\n", "\t", "\r"}

RECURSIVE decode_from_bytes(_, _)
\* CompileEncoding::decode_from_bytes: UTF-8 fails on a byte that is none,
\* Windows-1252 replaces and never fails.
decode_from_bytes(encoding, bytes) ==
    IF bytes = <<>> THEN Ok("")
    ELSE CHOOSE decoded \in
             {IF ~rest.ok THEN rest
              ELSE IF Head(bytes) = InvalidByte
              THEN IF encoding = "UTF8"
                   THEN [ok |-> FALSE, message |-> "Utf8Error"]
                   ELSE Ok("y" \o rest.v)
              ELSE Ok(Head(bytes) \o rest.v) :
                 rest \in {decode_from_bytes(encoding, Tail(bytes))}} : TRUE

\* enum CurrentlyIn
CurrentlyIn(kind, flag) == [kind |-> kind, flag |-> flag]

\* A variant of files_len that counts the file that is being read.
files_len_after(file_table) == Len(file_table) + 1

\* let file = self.files.len()
files_len(file_table) == Len(file_table)

\* The closure add_token at byte i, and the `currently_in = Whitespace` that
\* follows each call of it: the token from current_token_offset (past the
\* quote of a quoted token) up to i is pushed.
add_token(st, script, i, filename, encoding) ==
    LET quoted == st.currently_in.flag
        decoded ==
            decode_from_bytes(encoding,
                SubSeq(script,
                       st.current_token_offset + (IF quoted THEN 1 ELSE 0) + 1, i))
    IN  IF ~decoded.ok
        THEN CompileError([file |-> filename, line |-> st.line, column |-> st.column], "failed to decode token")
        ELSE Ok([st EXCEPT
                   !.tokens = Append(@, [line |-> st.current_token_line,
                                         column |-> st.current_token_column,
                                         file |-> st.file, string |-> decoded.v,
                                         children |-> None]),
                   !.currently_in = CurrentlyIn("Whitespace", FALSE)])

\* One pass of "Go through every character", for the byte of 0-based index i.
scan_byte(st, script, i, filename, encoding) ==
    LET c == script[i + 1]
        now == [st EXCEPT !.column = @ + 1]
        unquoted == now.currently_in = CurrentlyIn("Token", FALSE)
        added == add_token(now, script, i, filename, encoding)
        after == IF unquoted THEN added.v ELSE now
    IN  IF c = NUL
        THEN IF i + 1 = Len(script) THEN Ok(now)
             ELSE CompileError([file |-> filename, line |-> now.line, column |-> now.column],
                               "unexpected null terminator")
        ELSE IF c \in {"(", ")", ";"} \/ is_whitespace(c)
        THEN IF unquoted /\ ~added.ok THEN added
             ELSE IF c \in {"(", ")"}
             THEN Ok(IF after.currently_in.kind = "Whitespace"
                     THEN [after EXCEPT
                             !.tokens = Append(@, [line |-> after.line,
                                                   column |-> after.column,
                                                   file |-> after.file,
                                                   string |-> c,
                                                   children |-> None])]
                     ELSE after)
             ELSE IF c = "\n"
             THEN Ok([after EXCEPT
                        !.line = @ + 1, !.column = 0,
                        !.currently_in =
                            IF @ = CurrentlyIn("Comment", FALSE)
                            THEN CurrentlyIn("Whitespace", FALSE) ELSE @])
             ELSE IF c = ";"
             THEN Ok(IF after.currently_in.kind = "Whitespace"
                     THEN [after EXCEPT !.currently_in =
                              CurrentlyIn("Comment",
                                          /\ i + 2 <= Len(script)
                                          /\ script[i + 2] = "*")]
                     ELSE IF /\ after.currently_in = CurrentlyIn("Comment", TRUE)
                             /\ i >= 1
                             /\ script[i] = "*"
                     THEN [after EXCEPT !.currently_in =
                              CurrentlyIn("Whitespace", FALSE)]
                     ELSE after)
             ELSE Ok(after)
        ELSE IF now.currently_in.kind = "Whitespace"
        THEN Ok([now EXCEPT !.currently_in = CurrentlyIn("Token", c = "\""),
                            !.current_token_line = now.line,
                            !.current_token_column = now.column,
                            !.current_token_offset = i])
        ELSE IF now.currently_in = CurrentlyIn("Token", TRUE) /\ c = "\""
        THEN added
        ELSE Ok(now)

RECURSIVE scan_from(_, _, _, _, _)
\* The passes of "Go through every character" from byte i on, after the
\* passes before it: the state at the end, or the error of the first byte
\* that has one.
scan_from(passed, script, i, filename, encoding) ==
    IF i = Len(script) \/ ~passed.ok THEN passed
    ELSE CHOOSE out \in
             {scan_from(next, script, i + 1, filename, encoding) :
                 next \in {scan_byte(passed.v, script, i, filename, encoding)}} : TRUE

RECURSIVE recursively_add_token(_, _, _, _)
\* recursively_add_token with the children it has so far and the tokens the
\* iterator still holds: the block with its children and the tokens left,
\* or the error.
recursively_add_token(token, children, rest, filename) ==
    IF rest = <<>>
    THEN CompileError([file |-> filename, line |-> token.line, column |-> token.column], "unterminated block")
    ELSE IF Head(rest).string = "("
    THEN CHOOSE out \in
             {IF ~inner.ok THEN inner
              ELSE recursively_add_token(token, Append(children, inner.v.token),
                                         inner.v.rest, filename) :
                 inner \in {recursively_add_token(Head(rest), <<>>, Tail(rest),
                                                  filename)}} : TRUE
    ELSE IF Head(rest).string = ")"
    THEN IF children = <<>>
         THEN CompileError([file |-> filename, line |-> token.line, column |-> token.column], "empty block")
         ELSE Ok([token |-> [token EXCEPT !.children = Some(children)],
                  rest |-> Tail(rest)])
    ELSE recursively_add_token(token, Append(children, Head(rest)), Tail(rest),
                               filename)

RECURSIVE token_tree(_, _, _, _)
\* "Make the tokens into a tree": the top-level blocks of the flat tokens
\* after the blocks made so far, or the error.
token_tree(made, rest, filename, scanned) ==
    IF rest = <<>> THEN Ok(made)
    ELSE IF Head(rest).string = "("
    THEN CHOOSE out \in
             {IF ~block.ok THEN block
              ELSE token_tree(Append(made, block.v.token), block.v.rest, filename,
                              scanned) :
                 block \in {recursively_add_token(Head(rest), <<>>, Tail(rest),
                                                  filename)}} : TRUE
    ELSE CompileError([file |-> filename, line |-> scanned.line, column |-> scanned.column],
                      "expected left parenthesis")

\* What tokenize_script_data makes of the bytes of a file, from the state
\* it starts "Go through every character" in: the top-level blocks of the
\* file, or an error at a line and column of the named file.
tokenized(file_table, filename, script, encoding) ==
    CHOOSE out \in
        {IF ~scanned.ok THEN scanned
         ELSE IF scanned.v.currently_in.kind = "Token"
         THEN CompileError([file |-> filename, line |-> scanned.v.line, column |-> scanned.v.column],
                           "unterminated token")
         ELSE token_tree(<<>>, scanned.v.tokens, filename, scanned.v) :
            scanned \in
                {scan_from(Ok([tokens |-> <<>>, file |-> files_len(file_table),
                               line |-> 1, column |-> 0,
                               currently_in |-> CurrentlyIn("Whitespace", FALSE),
                               current_token_line |-> 1,
                               current_token_column |-> 1,
                               current_token_offset |-> 0]),
                           script, 0, filename, encoding)}} : TRUE

\* Compiler::tokenize_script_data of a file of ByteScripts, by a compiler of
\* either encoding: the file table and the token list grow at the end of a
\* call that found no error, and in no other place.
tokenize_script_data(source) ==
    /\ pc = "idle"
    /\ Len(files) < MaxFiles
    /\ \E encoding \in CompileEncoding :
          \E read \in {tokenized(files, source.filename, source.script, encoding)} :
              IF read.ok
              THEN /\ files' = Append(files, source.filename)
                   /\ tokens' = tokens \o read.v
                   /\ result' = [status |-> "read"]
              ELSE /\ result' = [status |-> "error", error |-> read]
                   /\ UNCHANGED <<files, tokens>>
    /\ UNCHANGED <<target, warnings, pc, drained, scripts, globals>>

\* Reads of the files of ByteScripts by a new compiler, in any order.
SpecTokenize ==
    Init /\ [][\E k \in 1..Len(ByteScripts) : tokenize_script_data(ByteScripts[k])]_vars

(***************************************************************************)
(* Properties of digest_tokens: reading its input and its output           *)
(***************************************************************************)
\* digest_tokens has returned (or panicked); `drained` is what it compiled.
Finished == result.status \in {"ok", "error", "panic"}

\* digest_tokens has returned Ok.
Compiled == result.status = "ok"

RECURSIVE TokensIn(_)
\* Every token of a token's tree.
TokensIn(token) ==
    {token}
    \cup (IF token.children.some
          THEN UNION {TokensIn(token.children.v[i]) :
                         i \in 1..Len(token.children.v)}
          ELSE {})

\* Every token of the compiled input.
SourceTokens == UNION {TokensIn(drained[i]) : i \in 1..Len(drained)}

SamePosition(a, b) ==
    a.file = b.file /\ a.line = b.line /\ a.column = b.column

\* The token of the input at the position of a node or an error.
TokenAt(at) == CHOOSE token \in SourceTokens : SamePosition(token, at)

\* The global or script block of the input that holds the position.
TopLevelAt(at) ==
    drained[CHOOSE i \in 1..Len(drained) :
                drained[i].file = at.file /\ drained[i].line = at.line]

IsTopLevel(token) == \E i \in 1..Len(drained) : drained[i] = token

\* The scripts and globals that the input declares.
Declared ==
    LET classified == classify(drained, target, FALSE)
    IN  IF classified.ok THEN classified.v
        ELSE [scripts |-> <<>>, globals |-> <<>>]

\* The places of a list where the name stands.
Named(list, name) == {i \in 1..Len(list) : list[i].name = name}

NamesOf(list) == {list[i].name : i \in 1..Len(list)}

\* The function a call block of the input names: its first word, or begin
\* for the expressions of a global or script block.
SourceName(token) ==
    IF IsTopLevel(token) THEN "begin"
    ELSE lowercase_token(token.children.v[1])

\* The arguments of a call block of the input, in source order.
SourceArguments(token) ==
    LET children == token.children.v
    IN  IF ~IsTopLevel(token) THEN SliceFrom(children, 1)
        ELSE IF lowercase_token(children[1]) = "global"
        THEN SliceFrom(children, 3)
        ELSE SliceFrom(children,
                 expression_offset(
                     ScriptType_from_str(lowercase_token(children[2])).v))

RECURSIVE Unwrapped(_)
\* The expression that is compiled for an argument: a begin of one
\* expression stands for that expression.
Unwrapped(token) ==
    IF /\ token.children.some
       /\ Len(token.children.v) = 2
       /\ ~token.children.v[1].children.some
       /\ lowercase_token(token.children.v[1]) = "begin"
    THEN Unwrapped(token.children.v[2])
    ELSE token

\* The 0-based indices that following next_node from node k visits.
NextNodes(nodes, k) ==
    LET visit[i \in 0..Len(nodes)] ==
            IF i = 0 THEN [at |-> Some(k), seen |-> <<>>]
            ELSE
            LET b == visit[i - 1]
            IN  IF /\ b.at.some
                   /\ b.at.v \in 0..(Len(nodes) - 1)
                   /\ nodes[b.at.v + 1].next_node.some
                THEN [at |-> nodes[b.at.v + 1].next_node,
                      seen |-> Append(b.seen, nodes[b.at.v + 1].next_node.v)]
                ELSE [at |-> None, seen |-> b.seen]
    IN  visit[Len(nodes)].seen

IsCall(node) == node.node_type.kind = "FunctionCall"

\* The call node at place i of the node array points at the name of its
\* function, from which next_node runs through its arguments.
CallWellFormed(nodes, i) ==
    LET call == nodes[i]
        token == TokenAt(call)
        arguments == SourceArguments(token)
    IN  /\ call.data.some
        /\ call.data.v.tag = "NodeOffset"
        /\ call.data.v.value \in 0..(Len(nodes) - 1)
        /\ LET k == call.data.v.value
               chain == NextNodes(nodes, k)
               last == IF chain = <<>> THEN k ELSE chain[Len(chain)]
           IN  /\ nodes[k + 1].node_type = Primitive("Static")
               /\ nodes[k + 1].value_type = "FunctionName"
               /\ nodes[k + 1].string_data = Some(SourceName(token))
               /\ Len(chain) = Len(arguments)
               /\ \A j \in 1..Len(chain) :
                     /\ chain[j] \in 0..(Len(nodes) - 1)
                     /\ SamePosition(nodes[chain[j] + 1], Unwrapped(arguments[j]))
               /\ last \in 0..(Len(nodes) - 1)
               /\ nodes[last + 1].next_node = None

\* C1: in the node array of every successful compile, the data of every
\* function-call node is NodeOffset(k), node k is a static primitive of type
\* FunctionName that carries the called function's name, and following
\* next_node from node k visits exactly the call's arguments in source
\* order, the last node visited (node k itself without arguments) having no
\* next_node.
C1_CallNodesChainTheirArguments ==
    Compiled =>
        \A i \in 1..Len(result.nodes) :
            IsCall(result.nodes[i]) => CallWellFormed(result.nodes, i)

\* C1 happens: a compiled call of three arguments, one of them a call of no
\* arguments.
C1_Witness ==
    /\ Compiled
    /\ \E i, j \in 1..Len(result.nodes) :
          /\ IsCall(result.nodes[i])
          /\ IsCall(result.nodes[j])
          /\ Len(NextNodes(result.nodes, result.nodes[i].data.v.value)) = 3
          /\ NextNodes(result.nodes, result.nodes[j].data.v.value) = <<>>
          /\ j - 1 \in Range(NextNodes(result.nodes, result.nodes[i].data.v.value))

\* C2: no emitted node of a successful compile has the value type Unparsed
\* or Passthrough.
C2_NoUnparsedOrPassthroughEmitted ==
    Compiled =>
        \A i \in 1..Len(result.nodes) :
            result.nodes[i].value_type \notin {"Unparsed", "Passthrough"}

\* The references of the node to the emitted scripts and globals hold their
\* positions.
IndexedByPosition(node) ==
    LET at == TokenAt(node)
    IN  /\ node.node_type = FunctionCall(FALSE) =>
              \E p \in 0..(Len(result.scripts) - 1) :
                 /\ result.scripts[p + 1].name = SourceName(at)
                 /\ node.index = Some(p)
        /\ (node.node_type = Primitive("Static") /\ node.value_type = "Script") =>
              \E p \in 0..(Len(result.scripts) - 1) :
                 /\ result.scripts[p + 1].name = lowercase_token(at)
                 /\ node.data = Some(NodeData("Short", p))
        /\ (/\ node.node_type = Primitive("Global")
            /\ lowercase_token(at) \in NamesOf(result.globals)) =>
              \E p \in 0..(Len(result.globals) - 1) :
                 /\ result.globals[p + 1].name = lowercase_token(at)
                 /\ node.data = Some(NodeData("Long", p))

\* C3: after a successful compile every script-call node has the index of
\* the position of the script of that name in the emitted script list (stubs
\* that were replaced are not counted), every static literal of type Script
\* has the data Short(that position), and every reference to a user global
\* has the data Long(position of the global in the emitted global list).
C3_ReferencesHoldEmittedPositions ==
    Compiled =>
        \A i \in 1..Len(result.nodes) : IndexedByPosition(result.nodes[i])

\* C3 happens: stubs were replaced, and a script call, a script literal and
\* a global reference hold a position other than 0.
C3_Witness ==
    /\ Compiled
    /\ Len(result.scripts) < Len(Declared.scripts)
    /\ \E i, j, k \in 1..Len(result.nodes) :
          /\ result.nodes[i].node_type = FunctionCall(FALSE)
          /\ result.nodes[i].index.v > 0
          /\ result.nodes[j].node_type = Primitive("Static")
          /\ result.nodes[j].value_type = "Script"
          /\ result.nodes[j].data.v.value > 0
          /\ result.nodes[k].node_type = Primitive("Global")
          /\ result.nodes[k].data = Some(NodeData("Long", 1))

\* The parameters of the script block that holds the position.
ParametersAt(at) ==
    LET holders == {i \in 1..Len(Declared.scripts) :
                       Declared.scripts[i].original_token = TopLevelAt(at)}
    IN  IF holders = {} THEN <<>>
        ELSE Declared.scripts[CHOOSE i \in holders : TRUE].parameters

\* The node of a word of a script's body that names a parameter of the
\* script.
IsParameterReference(node) ==
    /\ ~IsCall(node)
    /\ node.value_type # "FunctionName"
    /\ lowercase_token(TokenAt(node)) \in NamesOf(ParametersAt(node))

\* C4: the node emitted for a reference to a parameter of the script whose
\* body holds it is a Local primitive with the data Long(k), k the 0-based
\* position of the parameter of that name in the script's parameter list.
C4_LocalsHoldParameterPosition ==
    Compiled =>
        \A i \in 1..Len(result.nodes) :
            IsParameterReference(result.nodes[i]) =>
                LET parameters == ParametersAt(result.nodes[i])
                    name == lowercase_token(TokenAt(result.nodes[i]))
                    k == CHOOSE k \in 1..Len(parameters) :
                             /\ parameters[k].name = name
                             /\ \A before \in 1..(k - 1) :
                                   parameters[before].name # name
                IN  /\ result.nodes[i].node_type = Primitive("Local")
                    /\ result.nodes[i].data = Some(NodeData("Long", k - 1))

\* C4 happens: a compiled body refers to its script's parameters at the
\* positions 1 and 0.
C4_Witness ==
    /\ Compiled
    /\ \E i, j \in 1..Len(result.nodes) :
          /\ IsParameterReference(result.nodes[i])
          /\ IsParameterReference(result.nodes[j])
          /\ result.nodes[i].data = Some(NodeData("Long", 1))
          /\ result.nodes[j].data = Some(NodeData("Long", 0))

\* The catalog's entry for the target, read from the availability record.
CatalogIndex(function) ==
    IF target = "HaloCEA" THEN function.availability.mcc_cea
    ELSE function.availability.gbx_custom

\* The name is that of a catalog function with an entry for the target.
AvailableFunction(name) ==
    \E f \in Range(ALL_FUNCTIONS) : f.name = name /\ CatalogIndex(f).some

\* The call blocks of the input whose function is in the catalog without an
\* entry for the target, and is no script of the input either.
UnavailableCalls ==
    {token \in SourceTokens :
        /\ token.children.some
        /\ ~IsTopLevel(token)
        /\ Len(token.children.v) > 0
        /\ ~token.children.v[1].children.some
        /\ \E f \in Range(ALL_FUNCTIONS) : f.name = SourceName(token)
        /\ ~AvailableFunction(SourceName(token))
        /\ SourceName(token) \notin NamesOf(Declared.scripts)}

UndefinedFunction ==
    /\ result.status = "error"
    /\ result.error.message = "function is not defined"

\* C5: every emitted engine-function-call node names a catalog function that
\* has an entry for the compile target, and its index is that entry; a
\* compile of a call to a catalog function without an entry for the target,
\* which is no user script, fails, with the undefined-function error at that
\* call when the call is all there is to fail; and that error is given for
\* no function that the target has or the input defines.
C5_EngineCallsHoldCatalogIndex ==
    /\ Compiled =>
          \A i \in 1..Len(result.nodes) :
              result.nodes[i].node_type = FunctionCall(TRUE) =>
                  \E f \in Range(ALL_FUNCTIONS) :
                     /\ f.name = SourceName(TokenAt(result.nodes[i]))
                     /\ CatalogIndex(f).some
                     /\ result.nodes[i].index = CatalogIndex(f)
    /\ (Finished /\ UnavailableCalls # {}) =>
          /\ result.status = "error"
          /\ Len(drained) = 1 =>
                /\ UndefinedFunction
                /\ TokenAt(result.error) \in UnavailableCalls
    /\ (Finished /\ UndefinedFunction) =>
          /\ ~AvailableFunction(SourceName(TokenAt(result.error)))
          /\ SourceName(TokenAt(result.error)) \notin NamesOf(Declared.scripts)

\* C5 happens: the compile of a call to a function of the other target only
\* has failed.
C5_Witness ==
    /\ Finished
    /\ UnavailableCalls # {}
    /\ UndefinedFunction
    /\ Len(drained) = 1

\* The input declares under the name one stub and one static script of the
\* stub's return type, and nothing else.
StubPair(name) ==
    LET declared == Declared.scripts
    IN  /\ Cardinality(Named(declared, name)) = 2
        /\ \E i, j \in Named(declared, name) :
              /\ declared[i].script_type = "Stub"
              /\ declared[j].script_type = "Static"
              /\ declared[i].return_type = declared[j].return_type

\* The input declares under the name one script, a stub.
LoneStub(name) ==
    LET declared == Declared.scripts
    IN  /\ Cardinality(Named(declared, name)) = 1
        /\ \A i \in Named(declared, name) : declared[i].script_type = "Stub"

\* The script list has one script of the name, of the kind.
OneOfKind(list, name, script_type) ==
    /\ Cardinality(Named(list, name)) = 1
    /\ \A i \in Named(list, name) : list[i].script_type = script_type

\* digest_tokens has failed on the scripts of a name: in the stub pass, or
\* for a script defined twice.
FailedOnScriptsNamed(name) ==
    /\ result.status = "error"
    /\ result.error.message \in
          {"cannot replace stub script with non-static script",
           "cannot replace stub script with static script of another type",
           "multiple scripts defined"}
    /\ LET declared == Declared.scripts
       IN  \E i \in Named(declared, name) :
              SamePosition(declared[i].original_token, result.error)

\* C6: a stub and a static script of one name and return type, in either
\* order, do not fail the compile, and one script of the name is left in the
\* output, of kind Static; a stub that is alone under its name is left in
\* the output as a stub.
C6_StubIsReplacedByStatic ==
    Finished =>
        \A name \in NamesOf(Declared.scripts) :
            /\ (StubPair(name) \/ LoneStub(name)) => ~FailedOnScriptsNamed(name)
            /\ (Compiled /\ StubPair(name)) =>
                  OneOfKind(result.scripts, name, "Static")
            /\ (Compiled /\ LoneStub(name)) =>
                  OneOfKind(result.scripts, name, "Stub")

\* C6 happens: compiled were a stub ahead of its static script, and another
\* stub behind its static script.
C6_Witness ==
    /\ Compiled
    /\ \E m, n \in NamesOf(Declared.scripts) :
          /\ StubPair(m)
          /\ StubPair(n)
          /\ \E i, j \in Named(Declared.scripts, m) :
                i < j /\ Declared.scripts[i].script_type = "Stub"
          /\ \E i, j \in Named(Declared.scripts, n) :
                i < j /\ Declared.scripts[j].script_type = "Stub"

\* The input declares under the name two stubs of one return type, and
\* nothing else.
TwoStubs(name) ==
    LET declared == Declared.scripts
    IN  /\ Cardinality(Named(declared, name)) = 2
        /\ \A i, j \in Named(declared, name) :
              /\ declared[i].script_type = "Stub"
              /\ declared[i].return_type = declared[j].return_type

\* C7 as the specification states it: of two stubs of one name and return
\* type, with no static script of the name, both are left in the output and
\* no error is raised.
C7_TwoStubsBothRemain ==
    Finished =>
        \A name \in NamesOf(Declared.scripts) :
            TwoStubs(name) =>
                /\ Compiled
                /\ Cardinality(Named(result.scripts, name)) = 2

\* C7 as the code has it: when the input declares two or more stubs of one
\* name and no static script of that name, the compile fails with an error
\* and gives no output; the stub pass gives the error when the two stubs are
\* all the input.
C7_TwoStubsFailTheCompile ==
    Finished =>
        LET declared == Declared.scripts
        IN  \A name \in NamesOf(declared) :
            (/\ \A i \in Named(declared, name) :
                   declared[i].script_type = "Stub"
             /\ Cardinality(Named(declared, name)) >= 2) =>
                /\ result.status = "error"
                /\ (TwoStubs(name) /\ Len(drained) = 2) =>
                      /\ result.error.message =
                            "cannot replace stub script with non-static script"
                      /\ SamePosition(result.error, drained[1])

\* C7 happens: the compile of two stubs of one name has failed.
C7_Witness ==
    /\ result.status = "error"
    /\ \E name \in NamesOf(Declared.scripts) : TwoStubs(name)

\* A stub of the input shares its name with a script that is not static, or
\* with a static script of another return type.
StubSharesNameWithOther ==
    LET declared == Declared.scripts
    IN  \E i, j \in 1..Len(declared) :
           /\ i # j
           /\ declared[i].script_type = "Stub"
           /\ declared[i].name = declared[j].name
           /\ \/ declared[j].script_type # "Static"
              \/ declared[j].return_type # declared[i].return_type

IrreplaceableStub ==
    LET declared == Declared.scripts
    IN  \E i, j \in 1..Len(declared) :
           /\ i # j
           /\ declared[i].script_type = "Stub"
           /\ declared[i].name = declared[j].name
           /\ \/ declared[j].script_type \notin {"Static", "Stub"}
              \/ /\ declared[j].script_type = "Static"
                 /\ declared[j].return_type # declared[i].return_type

DistinctNames(list) ==
    \A i, j \in 1..Len(list) : list[i].name = list[j].name => i = j

\* Every name of the list is at most 31 bytes long and has no ASCII
\* uppercase letter.
WellFormedNames(list) ==
    \A i \in 1..Len(list) :
        Len(list[i].name) <= 31 /\ ~has_ascii_uppercase(list[i].name)

\* The input declares two globals, or two scripts that are no stubs, of one
\* name.
DefinedTwice ==
    LET declared == Declared.scripts
    IN  \/ ~DistinctNames(Declared.globals)
        \/ \E i, j \in 1..Len(declared) :
              /\ i # j
              /\ declared[i].name = declared[j].name
              /\ declared[i].script_type # "Stub"
              /\ declared[j].script_type # "Stub"

TooLong ==
    /\ result.status = "error"
    /\ result.error.message \in {"script name exceeds 31 characters in length",
                                 "global name exceeds 31 characters in length"}

\* C9: on every successful compile the emitted script names are pairwise
\* distinct, the emitted global names are pairwise distinct, and every name
\* is at most 31 bytes long and has no ASCII uppercase letter; a name of 32
\* bytes or more fails the compile, a name is refused as too long only when
\* it has more than 31 bytes, and two globals or two non-stub scripts of one
\* name fail the compile.
C9_NamesAreDistinctShortAndLowercase ==
    /\ Compiled =>
          /\ DistinctNames(result.scripts)
          /\ DistinctNames(result.globals)
          /\ WellFormedNames(result.scripts)
          /\ WellFormedNames(result.globals)
    /\ (/\ Finished
        /\ \E name \in NamesOf(Declared.scripts) \cup NamesOf(Declared.globals) :
              Len(name) >= 32) =>
          result.status = "error"
    /\ (Finished /\ TooLong) =>
          LET declared == Declared
          IN  \E name \in NamesOf(declared.scripts) \cup NamesOf(declared.globals) :
                 /\ Len(name) > 31
                 /\ \/ \E i \in Named(declared.scripts, name) :
                          SamePosition(declared.scripts[i].original_token,
                                       result.error)
                    \/ \E j \in Named(declared.globals, name) :
                          SamePosition(declared.globals[j].original_token,
                                       result.error)
    /\ (Finished /\ DefinedTwice) => result.status = "error"

\* C9 happens: compiled were a script of a name of 31 bytes and a script
\* whose name the source writes with uppercase letters.
C9_Witness ==
    /\ Compiled
    /\ \E i \in 1..Len(result.scripts) : Len(result.scripts[i].name) = 31
    /\ \E i \in 1..Len(Declared.scripts) :
          LET header == Declared.scripts[i].original_token.children.v
          IN  \E k \in 1..Len(header) :
                 /\ ~header[k].children.some
                 /\ has_ascii_uppercase(header[k].string)
                 /\ to_ascii_lowercase(header[k].string) = Declared.scripts[i].name

\* C10 as the specification states it: when more than 32767 scripts are left
\* after the stub pass, digest_tokens returns a compile error positioned at
\* a script of the list, and with 32767 scripts it passes the limit check.
C10_LimitGivesCompileError ==
    [][(pc = "check_limit" /\ pc' # "check_limit") =>
          /\ Len(scripts) > 32767 =>
                /\ result'.status = "error"
                /\ \E i \in 1..Len(scripts) :
                      SamePosition(scripts[i].original_token, result'.error)
          /\ Len(scripts) <= 32767 => pc' = "find_indices"]_vars

\* C11: on every successful compile the number of emitted scripts is at most
\* 32767 and the number of emitted globals is at most 32767.
C11_EmittedCountsWithinLimit ==
    Compiled => /\ Len(result.scripts) <= I16_MAX
                /\ Len(result.globals) <= I16_MAX

\* The name blocks (name p1 ... pn) of the script headers of the input.
BlockHeaders ==
    {drained[i].children.v[4] : i \in 1..Len(drained)}

\* The number of parameters that a name block names.
NamedParameters(name_token) == Len(name_token.children.v) - 1

\* digest_tokens has failed on the parameter count of the name block.
CountRejected(name_token) ==
    \/ result.status = "panic"
    \/ /\ result.status = "error"
       /\ result.error.message =
              "only the maximum of script parameter(s) are supported"
       /\ SamePosition(result.error, name_token.children.v[1])

\* C12: on a target that allows L > 0 script parameters, a script header in
\* block form (name p1 ... pn) passes the count check when n <= L, for n = 0
\* too, and the compile fails with an error when n > L.
C12_ParameterCountCheckedAgainstLimit ==
    (Finished /\ maximum_script_parameters(target) > 0) =>
        \A name_token \in BlockHeaders :
            IF NamedParameters(name_token) <= maximum_script_parameters(target)
            THEN ~CountRejected(name_token)
            ELSE result.status = "error"

\* The type that the block of a script or global of the input declares:
\* Void for the script types that always return void.
DeclaredType(token) ==
    LET children == token.children.v
    IN  IF lowercase_token(children[1]) = "global"
        THEN from_str_underscore(lowercase_token(children[2])).v
        ELSE IF always_returns_void(
                    ScriptType_from_str(lowercase_token(children[2])).v)
        THEN "Void"
        ELSE from_str_underscore(lowercase_token(children[3])).v

\* The emitted node at the first_node index of a compiled script or global.
RootNode(compiled) == result.nodes[compiled.first_node + 1]

\* The root node of a compiled script or global has the type that its block
\* declares, and no next node.
RootHasDeclaredType(compiled) ==
    /\ RootNode(compiled).value_type = DeclaredType(TopLevelAt(compiled))
    /\ RootNode(compiled).next_node = None

\* The implicit begin of the block was replaced by its single argument.
RootCollapsed(compiled) ==
    /\ Len(SourceArguments(TopLevelAt(compiled))) = 1
    /\ ~(IsCall(RootNode(compiled))
         /\ SamePosition(RootNode(compiled), TopLevelAt(compiled)))

\* C13: for every compiled script and global, the emitted node at its
\* first_node index has the script's declared return type (Void for startup,
\* dormant and continuous scripts) or the global's declared type, also when
\* the implicit root begin was collapsed into its single argument, and that
\* node has no next node.
C13_RootNodeHasDeclaredType ==
    Compiled =>
        /\ \A i \in 1..Len(result.scripts) : RootHasDeclaredType(result.scripts[i])
        /\ \A i \in 1..Len(result.globals) : RootHasDeclaredType(result.globals[i])

\* C13 happens: a compile of a script that always returns void and of a
\* global, both with their root begin collapsed into a call.
C13_Witness ==
    /\ Compiled
    /\ \E i \in 1..Len(result.scripts), j \in 1..Len(result.globals) :
          /\ result.scripts[i].script_type \in {"Startup", "Dormant", "Continuous"}
          /\ RootCollapsed(result.scripts[i])
          /\ RootCollapsed(result.globals[j])
          /\ IsCall(RootNode(result.globals[j]))

\* The expression that was analysed and the type expected of it.
Analysed == pc = "analysed"
AnalysedToken == tokens[1]
ExpectedType == result.expected_type

\* The expression is a leaf that names a parameter of the script or a global.
NamesVariable ==
    /\ ~AnalysedToken.children.some
    /\ \/ lowercase_token(AnalysedToken) \in NamesOf(scripts[1].parameters)
       \/ lowercase_token(AnalysedToken) \in NamesOf(globals)
       \/ lowercase_token(AnalysedToken) \in NamesOf(targeted_globals(target))

\* The type that the variable was declared with: parameters shadow globals,
\* the globals of the input shadow the engine's.
VariableType ==
    LET name == lowercase_token(AnalysedToken)
        variable ==
            IF name \in NamesOf(scripts[1].parameters)
            THEN scripts[1].parameters[CHOOSE i \in Named(scripts[1].parameters, name) : TRUE]
            ELSE IF name \in NamesOf(globals)
            THEN globals[CHOOSE i \in Named(globals, name) : TRUE]
            ELSE targeted_globals(target)[
                     CHOOSE i \in Named(targeted_globals(target), name) : TRUE]
    IN  variable.value_type

\* The analysis gave a variable node of the value type.
IsVariableNode(value_type) ==
    /\ result.node.ok
    /\ result.node.v.node_type.kind = "Primitive"
    /\ result.node.v.node_type.primitive_type \in {"Local", "Global"}
    /\ result.node.v.value_type = value_type

\* C14: a leaf that names a variable and is analysed with a non-Passthrough
\* expected type E to which the variable's declared type can convert yields
\* a variable node of value type E, not of the declared type; analysed with
\* expected type Passthrough it yields the variable's declared type.
C14_VariableNodeTakesExpectedType ==
    (Analysed /\ NamesVariable) =>
        /\ (ExpectedType # "Passthrough"
            /\ can_convert_to(VariableType, ExpectedType))
               => IsVariableNode(ExpectedType)
        /\ ExpectedType = "Passthrough" => IsVariableNode(VariableType)

\* C14 happens: the Short global was analysed where a Real is expected.
C14_Witness ==
    /\ Analysed
    /\ NamesVariable
    /\ result.node.ok
    /\ result.node.v.node_type = Primitive("Global")
    /\ VariableType = "Short"
    /\ ExpectedType = "Real"
    /\ result.node.v.value_type = "Real"

\* The analysis returned the conversion error of a variable, at the leaf.
VariableRejected ==
    /\ ~result.node.ok
    /\ ~result.node.panic
    /\ result.node.message = "global cannot convert to expected type"
    /\ SamePosition(result.node, AnalysedToken)

\* C20 as stated: a leaf that resolves to a local parameter or a global
\* becomes a variable node whose value type is the variable's declared type,
\* and is rejected with a conversion error when the declared type cannot
\* convert to the expected type.
C20_VariableNodeKeepsDeclaredType ==
    (Analysed /\ NamesVariable) =>
        IF can_convert_to(VariableType, ExpectedType)
        THEN IsVariableNode(VariableType)
        ELSE VariableRejected

\* C20, amended: a leaf that resolves to a local parameter or a global and is
\* analysed with a non-Passthrough expected type E is rejected with a
\* conversion error when its declared type T cannot convert to E and becomes
\* a variable node of value type E otherwise; with expected type Passthrough
\* it becomes a variable node of value type T.
C20_VariableNodeConvertsOrIsRejected ==
    (Analysed /\ NamesVariable) =>
        IF ExpectedType = "Passthrough" THEN IsVariableNode(VariableType)
        ELSE IF can_convert_to(VariableType, ExpectedType)
        THEN IsVariableNode(ExpectedType)
        ELSE VariableRejected

\* C20 happens: the Boolean global was analysed where a Short is expected,
\* and rejected.
C20_Witness ==
    /\ Analysed
    /\ NamesVariable
    /\ lowercase_token(AnalysedToken) = "flag"
    /\ VariableType = "Boolean"
    /\ ExpectedType = "Short"
    /\ VariableRejected

\* The expression is a call of a function or script that the target has.
CallsFunction ==
    /\ AnalysedToken.children.some
    /\ callable_functions_get(callables(globals, scripts, target),
                              lowercase_token(AnalysedToken.children.v[1])).some

\* The return type that the called function or script declares.
ReturnType ==
    get_return_type(
        callable_functions_get(callables(globals, scripts, target),
                               lowercase_token(AnalysedToken.children.v[1])).v)

\* The analysis returned the conversion error of a call, at the call.
CallRejected ==
    /\ ~result.node.ok
    /\ ~result.node.panic
    /\ result.node.message = "function cannot convert to expected type"
    /\ SamePosition(result.node, AnalysedToken)

\* C19: for a call analysed with expected type E, the call node's value type
\* is E when the function's declared return type is Passthrough and E is not
\* Passthrough, and the function's declared return type otherwise; and when
\* E is not Passthrough and that type cannot convert to E, the call is
\* rejected with a conversion error.
C19_CallNodeTypeFollowsReturnType ==
    (Analysed /\ CallsFunction) =>
        LET final_type ==
                IF ReturnType = "Passthrough" /\ ExpectedType # "Passthrough"
                THEN ExpectedType
                ELSE ReturnType
        IN  /\ result.node.ok => result.node.v.value_type = final_type
            /\ (ExpectedType # "Passthrough"
                /\ ~can_convert_to(final_type, ExpectedType)) => CallRejected

(***************************************************************************)
(* C15: the warnings of a compile                                          *)
(***************************************************************************)
\* The global definitions of the input, in declaration order.
GlobalBlocks ==
    SelectSeq(drained, LAMBDA block : lowercase_token(block.children.v[1]) = "global")

\* The names of the globals declared at the positions from..last.
NamesDeclaredFrom(from) ==
    {lowercase_token(GlobalBlocks[j].children.v[3]) : j \in from..Len(GlobalBlocks)}

RECURSIVE References(_)
\* The leaves of an expression that stand where a value is expected: every
\* leaf but the function names at the heads of the calls.
References(token) ==
    IF ~token.children.some THEN {token}
    ELSE UNION {References(token.children.v[k]) : k \in 2..Len(token.children.v)}

\* The references to user globals in the body of a script.
ScriptBodyReferences ==
    UNION {References(block) \ {block.children.v[k] : k \in 1..4} :
              block \in {b \in Range(drained) :
                            lowercase_token(b.children.v[1]) = "script"}}

\* The warning that a reference gets.
WarningAt(reference) ==
    [message |-> "use of uninitialized global",
     global_name |-> lowercase_token(reference),
     file |-> reference.file, line |-> reference.line,
     column |-> reference.column]

\* The references, in the initializer of the global at position i, to the
\* globals declared at the positions i..N.
UninitializedReferences(i) ==
    {reference \in References(GlobalBlocks[i].children.v[4]) :
        lowercase_token(reference) \in NamesDeclaredFrom(i)}

\* The warnings that C15 expects of the compile.
ExpectedWarnings ==
    {WarningAt(reference) :
        reference \in UNION {UninitializedReferences(i) :
                                i \in 1..Len(GlobalBlocks)}}

\* C15: a compile warns exactly once of each reference, in the initializer
\* of a global, to that global or to a global declared after it, and of
\* nothing else (no reference to a global declared before, to an engine
\* global, or in the body of a script).
C15_WarningsOfUninitializedGlobals ==
    result.status = "ok" =>
        /\ Range(result.warnings) = ExpectedWarnings
        /\ Len(result.warnings) = Cardinality(ExpectedWarnings)

\* C15 happens: uninitialized.hsc compiled. Its first global refers to the
\* second and to itself, its second to the first, its third to an engine
\* global and its script to two globals.
C15_Witness ==
    /\ result.status = "ok"
    /\ Len(GlobalBlocks) = 4
    /\ Len(result.warnings) = 4
    /\ \E w \in Range(result.warnings) : w.line = 1 /\ w.global_name = "first"
    /\ \E w \in Range(result.warnings) : w.line = 1 /\ w.global_name = "second"
    /\ ~\E w \in Range(result.warnings) : w.line \in {2, 3, 5}
    /\ \E reference \in References(GlobalBlocks[2].children.v[4]) :
          lowercase_token(reference) = "first"
    /\ \E reference \in References(GlobalBlocks[3].children.v[4]) :
          lowercase_token(reference) = "cheat_deathless_player"
    /\ \E reference \in ScriptBodyReferences :
          lowercase_token(reference) = "fourth"

(***************************************************************************)
(* C16: begin blocks of one expression                                     *)
(***************************************************************************)
\* The number of arguments of the call node at place i of a node array.
ArgumentCount(nodes, i) == Len(NextNodes(nodes, nodes[i].data.v.value))

\* The places of a node array that hold a call of something named begin:
\* a call node points at the node that holds the name of its function.
BeginCalls(nodes) ==
    {i \in 1..Len(nodes) :
        /\ IsCall(nodes[i])
        /\ nodes[nodes[i].data.v.value + 1].string_data = Some("begin")}

\* C16: the output of a successful compile has no call node named begin
\* that has exactly one argument.
C16_NoBeginOfOneArgument ==
    Compiled => \A i \in BeginCalls(result.nodes) : ArgumentCount(result.nodes, i) # 1

\* The call blocks of the input that are a begin of one expression.
SourceBeginsOfOne == {token \in SourceTokens : Unwrapped(token) # token}

\* C16 happens: cond.hsc compiled. It has a begin of one expression directly
\* inside a begin of one expression, a cond whose clauses have one
\* expression each, and a begin of two expressions, which is the one call of
\* begin that the output keeps.
C16_Witness ==
    /\ Compiled
    /\ \E token \in SourceBeginsOfOne : token.children.v[2] \in SourceBeginsOfOne
    /\ \E token \in SourceTokens :
          /\ token.children.some
          /\ ~token.children.v[1].children.some
          /\ lowercase_token(token.children.v[1]) = "cond"
    /\ Cardinality(BeginCalls(result.nodes)) = 1
    /\ \A i \in BeginCalls(result.nodes) : ArgumentCount(result.nodes, i) = 2

(***************************************************************************)
(* C18: the one error of a compile                                         *)
(***************************************************************************)
\* The error of the header of the form at place i of the input, if it has
\* one: what the classifier says of the form alone.
HeaderOf(i) == classify_token(drained[i], maximum_script_parameters(target), TRUE)

\* The analysis of the initializer of the declared global at place k alone,
\* and of the body of the declared script at place k alone.
InitializerOf(k) ==
    analyse_global(Ok(Declared.globals), k, Declared.globals[k],
                   callables(Declared.globals, Declared.scripts, target))

BodyOf(k) ==
    analyse_script(Ok(Declared.scripts), k, Declared.scripts[k],
                   callables(Declared.globals, Declared.scripts, target))

FailedHeaders == {i \in 1..Len(drained) : ~HeaderOf(i).ok}
FailedInitializers == {k \in 1..Len(Declared.globals) : ~InitializerOf(k).ok}
FailedBodies == {k \in 1..Len(Declared.scripts) : ~BodyOf(k).ok}

\* The least number of a set of numbers that is not empty.
First(places) == CHOOSE i \in places : \A j \in places : i <= j

StubMessages ==
    {"cannot replace stub script with non-static script",
     "cannot replace stub script with static script of another type"}

DuplicateMessages == {"multiple scripts defined", "multiple globals defined"}

\* The first stub of the input that shares its name with another script
\* cannot be replaced by the first script it shares its name with.
FirstStubIrreplaceable ==
    LET declared == Declared.scripts
        shares(i, j) == j # i /\ declared[i].name = declared[j].name
        stubs == {i \in 1..Len(declared) :
                     /\ declared[i].script_type = "Stub"
                     /\ \E j \in 1..Len(declared) : shares(i, j)}
    IN  /\ stubs # {}
        /\ LET i == First(stubs)
               j == First({j \in 1..Len(declared) : shares(i, j)})
           IN  \/ declared[j].script_type # "Static"
               \/ declared[j].return_type # declared[i].return_type

\* The compile has returned the error and nothing else: no later stage is
\* to run and there is no output.
Reported(error) ==
    /\ result = [status |-> "error", error |-> error]
    /\ pc = "idle"
    /\ scripts = <<>>
    /\ globals = <<>>

\* C18: a compile returns one error, the first that the stages meet in the
\* order classification of all forms, analysis of all globals in declaration
\* order, analysis of all scripts in declaration order, stub replacement,
\* duplicate detection, script limit. The error of a header comes before
\* that of any body, the error of the initializer of a global before that of
\* the body of any script wherever they stand in the source, and the error
\* of a stub or of a duplicate only when every body was analysed without
\* error. With the error returned no later stage runs and there is no
\* output.
C18_FirstErrorInStageOrder ==
    result.status \in {"ok", "error"} =>
        /\ result.status = "error" => Reported(result.error)
        /\ IF FailedHeaders # {}
           THEN Reported(HeaderOf(First(FailedHeaders)))
           ELSE IF FailedInitializers # {}
           THEN Reported(InitializerOf(First(FailedInitializers)))
           ELSE IF FailedBodies # {}
           THEN Reported(BodyOf(First(FailedBodies)))
           ELSE result.status = "error" =>
                   /\ result.error.message \in
                         StubMessages \cup DuplicateMessages
                         \cup {"maximum script limit exceeded"}
                   /\ FirstStubIrreplaceable =>
                         result.error.message \in StubMessages

\* C18 happens: header_last.hsc has failed with the error of the header of
\* its third form, behind a script and a global whose bodies have errors.
C18_Witness ==
    /\ result.status = "error"
    /\ Len(drained) = 3
    /\ FailedHeaders = {3}
    /\ lowercase_token(drained[1].children.v[1]) = "script"
    /\ lowercase_token(drained[2].children.v[1]) = "global"
    /\ result.error.line = 3
    /\ LET later == classify(SubSeq(drained, 1, 2), target, TRUE).v
           env == callables(later.globals, later.scripts, target)
       IN  /\ ~analyse_global(Ok(later.globals), 1, later.globals[1], env).ok
           /\ ~analyse_script(Ok(later.scripts), 1, later.scripts[1], env).ok

(***************************************************************************)
(* C17: the case of the letters of the input                               *)
(***************************************************************************)
\* What digest_tokens returns for an outcome that is no Ok.
Returned(outcome) ==
    [status |-> IF outcome.panic THEN "panic" ELSE "error", error |-> outcome]

RECURSIVE StubsRemoved(_)
\* 'remove_stubs_loop, run until it breaks or returns an error.
StubsRemoved(script_list) ==
    LET scan == remove_stubs_scan(script_list)
    IN  IF scan.ok /\ scan.outcome = "removed" THEN StubsRemoved(scan.scripts)
        ELSE scan

\* digest_tokens from "Find the script and global indices" to its end.
Indexed(script_list, global_list, t, debug_assertions) ==
    IF \/ \E i \in 1..Len(script_list) :
             indices_unwrap_none(script_list[i].node, script_list[i].parameters,
                                 script_list)
       \/ \E i \in 1..Len(global_list) :
             indices_unwrap_none(global_list[i].node, <<>>, script_list)
    THEN Returned(Panic("called Option::unwrap() on a None value"))
    ELSE
    LET script_nodes ==
            [i \in 1..Len(script_list) |->
                [script_list[i] EXCEPT !.node =
                    find_global_script_indices_for_node(
                        script_list[i].node, script_list[i].parameters,
                        script_list, global_list, t)]]
        global_nodes ==
            [i \in 1..Len(global_list) |->
                [global_list[i] EXCEPT !.node =
                    find_global_script_indices_for_node(
                        global_list[i].node, <<>>, script_list, global_list, t)]]
        output == compile_output(script_nodes, global_nodes)
    IN  IF /\ debug_assertions
           /\ \/ \E i \in 1..Len(script_nodes) :
                    engine_index_none(script_nodes[i].node)
              \/ \E i \in 1..Len(global_nodes) :
                    engine_index_none(global_nodes[i].node)
        THEN Returned(Panic("assertion failed: node.index != None"))
        ELSE IF /\ debug_assertions
                /\ \/ \E i \in 1..Len(script_nodes) :
                         ~no_passthrough(script_nodes[i].node)
                   \/ \E i \in 1..Len(global_nodes) :
                         ~no_passthrough(global_nodes[i].node)
        THEN Returned(Panic("assertion failed: node.value_type != Passthrough"))
        ELSE [status |-> "ok", scripts |-> output.scripts,
              globals |-> output.globals, nodes |-> output.nodes]

\* digest_tokens from "Optimize 'begin' nodes with only one call" to its end.
PostPass(script_list, global_list, t, debug_assertions) ==
    LET optimized_globals ==
            [i \in 1..Len(global_list) |->
                [global_list[i] EXCEPT !.node = optimize_begin(global_list[i].node)]]
        optimized_scripts ==
            [i \in 1..Len(script_list) |->
                [script_list[i] EXCEPT !.node = optimize_begin(script_list[i].node)]]
        stubs == StubsRemoved(optimized_scripts)
    IN  IF ~stubs.ok THEN Returned(stubs)
        ELSE IF ~check_duplicates(stubs.scripts, optimized_globals).ok
        THEN Returned(check_duplicates(stubs.scripts, optimized_globals))
        ELSE IF ~check_limit(stubs.scripts).ok
        THEN Returned(check_limit(stubs.scripts))
        ELSE Indexed(stubs.scripts, optimized_globals, t, debug_assertions)

\* What digest_tokens returns for a list of tokens: the stages of the state
\* machine, one after the other, in a build with or without overflow checks
\* and debug assertions.
Digested(all_tokens, t, overflow_checks, debug_assertions) ==
    LET classified == classify(all_tokens, t, overflow_checks)
    IN  IF ~classified.ok THEN Returned(classified)
        ELSE
        LET parsed_globals ==
                analyse_globals(classified.v.globals, classified.v.scripts, t)
        IN  IF ~parsed_globals.ok THEN Returned(parsed_globals)
            ELSE
            LET parsed_scripts ==
                    analyse_scripts(parsed_globals.v, classified.v.scripts, t)
            IN  IF ~parsed_scripts.ok THEN Returned(parsed_scripts)
                ELSE PostPass(parsed_scripts.v, parsed_globals.v, t,
                              debug_assertions)

\* Two compiles have the same result: both succeed with the same scripts,
\* globals and nodes, or both fail.
SameResult(a, b) ==
    /\ a.status = b.status
    /\ a.status = "ok" =>
          /\ a.scripts = b.scripts
          /\ a.globals = b.globals
          /\ a.nodes = b.nodes

\* The compile of the state has returned what a build returns for its input.
ResultOf(overflow_checks, debug_assertions) ==
    LET digested == Digested(drained, target, overflow_checks, debug_assertions)
    IN  /\ SameResult(digested, result)
        /\ digested.status # "ok" => digested.error = result.error

\* The mixed-case spellings of a word.
MixedCase(string) ==
    {UppercaseStrings[i][1] :
        i \in {k \in 1..Len(UppercaseStrings) : UppercaseStrings[k][2] = string}}

RECURSIVE Recased(_, _, _)
\* The token with the word of one of its leaves spelled otherwise.
Recased(token, leaf, string) ==
    IF token = leaf THEN [token EXCEPT !.string = string]
    ELSE IF token.children.some
    THEN [token EXCEPT !.children =
             Some([k \in 1..Len(token.children.v) |->
                      Recased(token.children.v[k], leaf, string)])]
    ELSE token

\* The words of the input.
SourceLeaves == {token \in SourceTokens : ~token.children.some}

\* The input with one of its words in a mixed-case spelling.
RecasedInput(leaf, string) ==
    [i \in 1..Len(drained) |-> Recased(drained[i], leaf, string)]

\* C17: an input in which a word (a form head, a script kind, a type name,
\* that of a script parameter included, a function name, a variable name, a
\* literal) is replaced by a mixed-case spelling compiles to the same
\* result: the same success or failure and, on success, the same scripts,
\* globals and nodes.
C17_CaseOfLettersIsIgnored ==
    Finished =>
        \A overflow_checks, debug_assertions \in BOOLEAN :
            ResultOf(overflow_checks, debug_assertions) =>
                \A leaf \in SourceLeaves :
                    \A string \in MixedCase(leaf.string) :
                        SameResult(
                            Digested(RecasedInput(leaf, string), target,
                                     overflow_checks, debug_assertions),
                            result)

(***************************************************************************)
(* C21: the table of conversions                                           *)
(***************************************************************************)
\* The pairs of the table of conversions: Passthrough to any; Real to Short
\* or Long; Short to Real; Long to Short or Real; Vehicle to Unit; an object
\* type to Object or ObjectList.
ListedConversion(from, to) ==
    \/ from = "Passthrough"
    \/ from = "Real" /\ to \in {"Short", "Long"}
    \/ from = "Short" /\ to = "Real"
    \/ from = "Long" /\ to \in {"Short", "Real"}
    \/ from = "Vehicle" /\ to = "Unit"
    \/ /\ from \in {"ObjectName", "Object", "Unit", "Vehicle", "Weapon",
                    "Scenery", "Device"}
       /\ to \in {"Object", "ObjectList"}

CalledBy(node) ==
    callable_functions_get(callables(globals, scripts, target), node.string_data.v).v

\* The places of the arguments of a call node that are bound to parameters
\* of type Passthrough; of a passthrough_last function the last one only.
PassthroughArguments(node) ==
    {k \in 1..Len(node.parameters.v) :
        /\ get_type_of_parameter(CalledBy(node), k - 1) = Some("Passthrough")
        /\ is_passthrough_last(CalledBy(node)) => k = Len(node.parameters.v)}

\* The arguments of the call node that are bound to Passthrough parameters
\* have one value type.
Unified(node) ==
    \A i, j \in PassthroughArguments(node) :
        node.parameters.v[i].value_type = node.parameters.v[j].value_type

RECURSIVE UnifiedBelow(_)
\* Every call node of the tree is unified.
UnifiedBelow(node) ==
    IsCall(node) =>
        /\ Unified(node)
        /\ \A k \in 1..Len(node.parameters.v) : UnifiedBelow(node.parameters.v[k])

\* The places of the Passthrough arguments that resolve a type: a variable,
\* or a call whose type is not Passthrough.
Resolving(node) ==
    {k \in PassthroughArguments(node) :
        /\ node.parameters.v[k].node_type # Primitive("Static")
        /\ node.parameters.v[k].value_type # "Passthrough"}

\* The type U that C22 gives the Passthrough arguments of the call node that
\* was analysed with the expected type (set is not among the functions of
\* the inputs).
UnifiedType(node, expected_type) ==
    IF get_return_type(CalledBy(node)) = "Passthrough" /\ expected_type # "Passthrough"
    THEN expected_type
    ELSE IF Resolving(node) # {}
    THEN node.parameters.v[First(Resolving(node))].value_type
    ELSE "Real"

\* C22: in a call that was analysed without error, and in every call below
\* it, the arguments bound to Passthrough parameters have one value type U
\* (those of a passthrough_last function before the last aside); U of the
\* analysed call is the expected type when the function returns Passthrough
\* and the expected type is not Passthrough, else the type of the first
\* argument that resolves one, else Real.
C22_PassthroughArgumentsHaveOneType ==
    (Analysed /\ result.node.ok /\ IsCall(result.node.v)) =>
        /\ UnifiedBelow(result.node.v)
        /\ \A k \in PassthroughArguments(result.node.v) :
              result.node.v.parameters.v[k].value_type =
                  UnifiedType(result.node.v, ExpectedType)

(***************************************************************************)
(* C23: the number of arguments of a call                                  *)
(***************************************************************************)
\* The function or script that the analysed call names.
Called ==
    callable_functions_get(callables(globals, scripts, target),
                           lowercase_token(AnalysedToken.children.v[1])).v

\* The arguments of the analysed call.
Supplied == SliceFrom(AnalysedToken.children.v, 1)

\* The number of parameters that the function or script declares.
Declared23 ==
    IF Called.engine THEN Len(Called.function.parameters)
    ELSE Len(Called.script.parameters)

\* The position of the first optional parameter (the number of parameters
\* ahead of it), or the number of parameters if none is optional; no
\* parameter of a script is optional.
MinArity ==
    IF Called.engine /\ \E i \in 1..Declared23 : Called.function.parameters[i].optional
    THEN First({i \in 1..Declared23 : Called.function.parameters[i].optional}) - 1
    ELSE Declared23

\* The last parameter is marked many; no parameter of a script is.
LastIsMany ==
    Called.engine /\ Declared23 > 0 /\ Called.function.parameters[Declared23].many

\* The analysis returned the error of the message.
RejectedWith(message) ==
    /\ ~result.node.ok
    /\ ~result.node.panic
    /\ result.node.message = message

ArityMessages ==
    {"function takes at least its minimum parameter(s)",
     "function takes at most its total parameter(s)"}

\* The analysis returned an error that stands in one of the first n
\* arguments of the call.
RejectedWithin(n) ==
    /\ ~result.node.ok
    /\ \E k \in 1..n : \E token \in TokensIn(Supplied[k]) :
          SamePosition(result.node, token)

\* C23: a call of k arguments passes the arity checks exactly when
\* min_arity <= k and either k <= |P| or the last parameter of P is marked
\* many. With fewer than min_arity arguments it is rejected with an error at
\* the call; with an argument in excess it is rejected with an error at the
\* first argument beyond |P| (unless one of the arguments ahead of that one
\* is rejected in its analysis, which comes first).
C23_ArityOfACall ==
    (Analysed /\ CallsFunction) =>
        IF Len(Supplied) < MinArity
        THEN /\ RejectedWith("function takes at least its minimum parameter(s)")
             /\ SamePosition(result.node, AnalysedToken)
        ELSE IF Len(Supplied) > Declared23 /\ ~LastIsMany
        THEN \/ /\ RejectedWith("function takes at most its total parameter(s)")
                /\ SamePosition(result.node, Supplied[Declared23 + 1])
             \/ RejectedWithin(Declared23)
        ELSE result.node.ok \/ result.node.message \notin ArityMessages

\* C23 happens: (if flag 1 2 3) was rejected at its fourth argument.
C23_Witness ==
    /\ Analysed
    /\ CallsFunction
    /\ Called.engine
    /\ Called.function.name = "if"
    /\ MinArity = 2
    /\ Declared23 = 3
    /\ Len(Supplied) = 4
    /\ RejectedWith("function takes at most its total parameter(s)")
    /\ SamePosition(result.node, Supplied[4])

(***************************************************************************)
(* C24: names that are declared more than once                             *)
(***************************************************************************)
\* The node of a word of the input that is no function name.
IsWord(node) == ~IsCall(node) /\ node.value_type # "FunctionName"

\* The node is resolved as C24 has it: a word that names a parameter of the
\* script around it is a Local; else a word that names a global of the
\* input is a Global with the position of that global as its data; else a
\* word that names a global of the engine for the target is a Global; a call
\* of a name that a script of the input has is a script call.
ResolvedInOrder(node) ==
    LET at == TokenAt(node)
    IN  IF IsCall(node)
        THEN SourceName(at) \in NamesOf(Declared.scripts) =>
                 node.node_type = FunctionCall(FALSE)
        ELSE IsWord(node) =>
                 IF lowercase_token(at) \in NamesOf(ParametersAt(node))
                 THEN node.node_type = Primitive("Local")
                 ELSE IF lowercase_token(at) \in NamesOf(Declared.globals)
                 THEN /\ node.node_type = Primitive("Global")
                      /\ \E p \in 0..(Len(result.globals) - 1) :
                            /\ result.globals[p + 1].name = lowercase_token(at)
                            /\ node.data = Some(NodeData("Long", p))
                 ELSE lowercase_token(at) \in NamesOf(targeted_globals(target)) =>
                          node.node_type = Primitive("Global")

\* The compile has failed for a script that takes the name of a function.
OverrideRejected ==
    /\ result.status = "error"
    /\ result.error.message = "function cannot be overridden by a script"

\* The name of the script whose header holds the position of the error.
RejectedName ==
    LET at == TokenAt(result.error)
    IN  IF at.children.some THEN lowercase_token(at.children.v[1])
        ELSE lowercase_token(at)

CallsCond ==
    /\ AnalysedToken.children.some
    /\ ~AnalysedToken.children.v[1].children.some
    /\ lowercase_token(AnalysedToken.children.v[1]) = "cond"

Arms == SliceFrom(AnalysedToken.children.v, 1)

\* The arm is a block of a condition and one expression or more.
WellShapedArm(arm) == arm.children.some /\ Len(arm.children.v) >= 2

\* A word and a block written where the cond is.
Written(string) == [AnalysedToken EXCEPT !.string = string, !.children = None]
WrittenBlock(children) ==
    [AnalysedToken EXCEPT !.string = "", !.children = Some(children)]

RECURSIVE NestedIf(_, _)
\* (if c_i (begin b_i...) (if c_i+1 ...)) for the arms from i on; the last
\* if has no else branch.
NestedIf(arms, i) ==
    LET taken == WrittenBlock(<<Written("begin")>> \o SliceFrom(arms[i].children.v, 1))
        branches == <<Written("if"), arms[i].children.v[1], taken>>
    IN  WrittenBlock(IF i = Len(arms) THEN branches
                     ELSE Append(branches, NestedIf(arms, i + 1)))

RECURSIVE Unplaced(_)
\* The node tree without the positions of its nodes.
Unplaced(node) ==
    [value_type |-> node.value_type, node_type |-> node.node_type,
     string_data |-> node.string_data, data |-> node.data,
     index |-> node.index,
     parameters |->
         IF node.parameters.some
         THEN Some([i \in 1..Len(node.parameters.v) |->
                        Unplaced(node.parameters.v[i])])
         ELSE None]

\* Two analyses give the same node tree, or fail with the same message.
SameTree(a, b) ==
    IF a.ok THEN b.ok /\ Unplaced(a.v) = Unplaced(b.v)
    ELSE ~b.ok /\ a.panic = b.panic /\ a.message = b.message

\* C25: the analysis of a cond of one arm or more, each arm a block of a
\* condition and one expression or more, gives the node tree that the
\* analysis of the nested if of its arms gives under the same expected
\* type; a cond of no arm, or with an arm that is a leaf or has fewer than
\* two children, is rejected with an error.
C25_CondIsTheNestedIf ==
    (Analysed /\ CallsCond) =>
        IF Arms # <<>> /\ \A i \in 1..Len(Arms) : WellShapedArm(Arms[i])
        THEN SameTree(result.node,
                      create_node_from_tokens(NestedIf(Arms, 1), ExpectedType,
                          scripts[1].parameters,
                          callables(globals, scripts, target)))
        ELSE /\ ~result.node.ok
             /\ ~result.node.panic
             /\ result.node.message \in
                    {"cond requires at least one set of expressions",
                     "cond requires each parameter to be (<condition> <expression(s)>)"}

\* C25 happens: a cond of two arms, the second with two expressions, has
\* been analysed to a node tree.
C25_Witness ==
    /\ Analysed
    /\ CallsCond
    /\ Len(Arms) = 2
    /\ \A i \in 1..Len(Arms) : WellShapedArm(Arms[i])
    /\ Len(Arms[2].children.v) = 3
    /\ result.node.ok
    /\ result.node.v.string_data = Some("if")
    /\ Len(result.node.v.parameters.v) = 3

(***************************************************************************)
(* C26: the names of the parameters of a script                            *)
(***************************************************************************)
\* Two parameters of the script have one name.
SharesParameterName(script) ==
    \E i, j \in 1..Len(script.parameters) :
        i # j /\ script.parameters[i].name = script.parameters[j].name

\* C26: in every script of a compile that succeeded the names of the
\* parameters are pairwise distinct, so a Local node names one parameter
\* only; a header with two parameters of one lowercased name is rejected.
C26_ParameterNamesAreDistinct ==
    Compiled =>
        /\ \A k \in 1..Len(result.scripts) : ~SharesParameterName(result.scripts[k])
        /\ \A i \in 1..Len(result.nodes) :
              result.nodes[i].node_type = Primitive("Local") =>
                  Cardinality({p \in 1..Len(ParametersAt(result.nodes[i])) :
                      ParametersAt(result.nodes[i])[p].name =
                          lowercase_token(TokenAt(result.nodes[i]))}) = 1

(***************************************************************************)
(* C27: the links of the emitted node array                                *)
(***************************************************************************)
\* The links of a node array, each the 0-based index of the node that holds
\* it, the index it names and its kind.
Links(nodes) ==
    {[holder |-> c, target |-> nodes[c + 1].data.v.value, kind |-> "NodeOffset"] :
        c \in {c \in 0..(Len(nodes) - 1) :
                  /\ nodes[c + 1].data.some
                  /\ nodes[c + 1].data.v.tag = "NodeOffset"}}
    \cup
    {[holder |-> c, target |-> nodes[c + 1].next_node.v, kind |-> "next_node"] :
        c \in {c \in 0..(Len(nodes) - 1) : nodes[c + 1].next_node.some}}

RECURSIVE RootOf(_, _)
\* The node that no link names and from which the links lead to node i.
RootOf(nodes, i) ==
    LET holders == {l.holder : l \in {l \in Links(nodes) : l.target = i /\ l.holder < i}}
    IN  IF holders = {} THEN i
        ELSE RootOf(nodes, CHOOSE holder \in holders : TRUE)

\* Every link names a node of the array after the node that holds it, no
\* node is named by two links, and a call node names the node after it.
LinkedForward(nodes) ==
    /\ \A l \in Links(nodes) :
          l.target \in 0..(Len(nodes) - 1) /\ l.target > l.holder
    /\ \A l, m \in Links(nodes) : l.target = m.target => l = m
    /\ \A c \in 0..(Len(nodes) - 1) :
          IsCall(nodes[c + 1]) =>
              nodes[c + 1].data = Some(NodeData("NodeOffset", c + 1))

\* The nodes of the scripts come before the nodes of the globals.
ScriptsBeforeGlobals(output) ==
    \A a, b \in 0..(Len(output.nodes) - 1) :
        (/\ \E k \in 1..Len(output.scripts) :
               output.scripts[k].first_node = RootOf(output.nodes, a)
         /\ \E k \in 1..Len(output.globals) :
               output.globals[k].first_node = RootOf(output.nodes, b)) => a < b

RECURSIVE CountNodes(_)
\* The nodes of an analysed node tree.
CountNodes(node) ==
    IF ~node.parameters.some \/ node.parameters.v = <<>> THEN 1
    ELSE LET count[i \in 0..Len(node.parameters.v)] ==
                 IF i = 0 THEN 1
                 ELSE count[i - 1] + CountNodes(node.parameters.v[i])
         IN  count[Len(node.parameters.v)]

RECURSIVE CountCalls(_)
\* The call nodes of an analysed node tree.
CountCalls(node) ==
    IF node.node_type.kind # "FunctionCall" THEN 0
    ELSE LET count[i \in 0..Len(node.parameters.v)] ==
                 IF i = 0 THEN 1
                 ELSE count[i - 1] + CountCalls(node.parameters.v[i])
         IN  count[Len(node.parameters.v)]

\* The sum of a count over the nodes of a list of scripts or globals.
CountedIn(list, Count(_)) ==
    LET count[i \in 0..Len(list)] ==
            IF i = 0 THEN 0 ELSE count[i - 1] + Count(list[i].node)
    IN  count[Len(list)]

\* C27: in the emitted node array every NodeOffset and every next_node is
\* an index of the array greater than the index of the node that holds it,
\* no node is named by two links, a call node at index c holds
\* NodeOffset(c + 1), the nodes of the scripts come before the nodes of the
\* globals, and the array is as long as the analysed nodes and the call
\* nodes together are many.
C27_NodeArrayIsLinkedForward ==
    /\ [](Compiled => LinkedForward(result.nodes) /\ ScriptsBeforeGlobals(result))
    /\ [][(pc = "emit" /\ result'.status = "ok") =>
             Len(result'.nodes) =
                 CountedIn(scripts, CountNodes) + CountedIn(globals, CountNodes)
                 + CountedIn(scripts, CountCalls) + CountedIn(globals, CountCalls)]_vars

\* C27 happens: a compile has emitted the nodes of a script and of a global,
\* with a call inside a call and a call of two arguments or more.
C27_Witness ==
    /\ Compiled
    /\ result.scripts # <<>>
    /\ result.globals # <<>>
    /\ \E l, m \in Links(result.nodes) :
          /\ l.kind = "next_node"
          /\ IsCall(result.nodes[l.target + 1])
          /\ m.kind = "next_node"
          /\ result.nodes[m.holder + 1].value_type # "FunctionName"

(***************************************************************************)
(* C28: the loop that removes the stubs                                    *)
(***************************************************************************)
\* The loop is at the start of a pass over the scripts.
ScanningStubs == pc = "remove_stubs"

\* The passes of the loop that were restarted: the analysis keeps every
\* declared script, and a restart takes one away.
Restarts == Len(Declared.scripts) - Len(scripts)

\* The step is a restart of the loop that took one stub from the list.
TookOneStub ==
    \E i \in 1..Len(scripts) :
        /\ scripts[i].script_type = "Stub"
        /\ scripts' = SubSeq(scripts, 1, i - 1) \o SubSeq(scripts, i + 1, Len(scripts))

\* C28: the loop ends for every list of scripts. A restart of the pass comes
\* after the removal of one script, a Stub; the pass that leaves the loop
\* removes nothing; for N scripts there are N restarts at most; and the loop
\* is left, by a pass without a removal or by an error.
C28_StubRemovalTerminates ==
    /\ [][(ScanningStubs /\ pc' = "remove_stubs") => TookOneStub]_vars
    /\ [][(ScanningStubs /\ pc' = "check_duplicates") => scripts' = scripts]_vars
    /\ [](ScanningStubs => Restarts \in 0..Len(Declared.scripts))
    /\ (ScanningStubs ~> ~ScanningStubs)

\* C28 happens: the loop has restarted twice, with a stub left that no pass
\* removes.
C28_Witness ==
    /\ ScanningStubs
    /\ Restarts = 2
    /\ \E i \in 1..Len(scripts) : scripts[i].script_type = "Stub"
    /\ remove_stubs_scan(scripts).outcome = "break"

(***************************************************************************)
(* C29: what a read leaves in the compiler                                 *)
(***************************************************************************)
\* The file of ByteScripts of a name.
ReadFrom(filename) ==
    CHOOSE source \in Range(ByteScripts) : source.filename = filename

\* The top-level blocks of the token list that carry file index k.
BlocksOfFile(k) == SelectSeq(tokens, LAMBDA token : token.file = k)

\* The blocks with file index k are the blocks of the file that the file
\* table names at k, read when the table held k names.
NamesItsFile(k) ==
    \E encoding \in CompileEncoding :
        \E read \in {tokenized(SubSeq(files, 1, k), files[k + 1],
                               ReadFrom(files[k + 1]).script, encoding)} :
            read.ok /\ read.v = BlocksOfFile(k)

\* The step appends one file name and blocks that carry, with every token
\* in them, the length of the file table before the step.
AppendsOneFile ==
    /\ Len(files') = Len(files) + 1
    /\ SubSeq(files', 1, Len(files)) = files
    /\ Len(tokens') >= Len(tokens)
    /\ SubSeq(tokens', 1, Len(tokens)) = tokens
    /\ \A b \in (Len(tokens) + 1)..Len(tokens') :
          /\ tokens'[b].children.some
          /\ \A token \in TokensIn(tokens'[b]) : token.file = Len(files)

\* C29: a call of tokenize_script_data that returns an error leaves the
\* token list and the file table as they were; a call that succeeds appends
\* one file name and the top-level blocks of that file, every token with
\* the length of the file table before the call as its file index; so after
\* any reads the file index of every token names the file it was read from.
C29_ReadIsAllOrNothing ==
    /\ [][result'.status = "error" => (tokens' = tokens /\ files' = files)]_vars
    /\ [][result'.status = "read" => AppendsOneFile]_vars
    /\ [](/\ \A b \in 1..Len(tokens) : \A token \in TokensIn(tokens[b]) :
                token.file \in 0..(Len(files) - 1)
          /\ \A k \in 0..(Len(files) - 1) : NamesItsFile(k))

\* C29 happens: after the read of a file with blocks, the read of a file
\* with a block of no token has failed.
C29_Witness ==
    /\ result.status = "error"
    /\ result.error.message = "empty block"
    /\ files # <<>>
    /\ tokens # <<>>

(***************************************************************************)
(* C30: what digest_tokens leaves in the compiler                          *)
(***************************************************************************)
\* digest_tokens has returned an error.
Failed == result.status = "error"

\* The call that has returned found no token to drain: no read came between
\* it and the call before it, or the files read had no blocks.
DrainedNothing == Finished /\ drained = <<>>

\* C30: after digest_tokens has returned the token list is empty; after a
\* success the file table and the warning list are empty too, and the
\* output has their contents in their order; a failure leaves the file
\* table and the warnings in the compiler; and a call that follows without
\* a read succeeds, with no script, no global and no node.
C30_DigestDrainsTheCompiler ==
    /\ [](Finished => tokens = <<>>)
    /\ [](Compiled => (files = <<>> /\ warnings = <<>>))
    /\ [][result'.status = "ok" =>
             (result'.files = files /\ result'.warnings = warnings)]_vars
    /\ [][result'.status = "error" => (files' = files /\ warnings' = warnings)]_vars
    /\ [](DrainedNothing =>
             /\ Compiled
             /\ result.scripts = <<>>
             /\ result.globals = <<>>
             /\ result.nodes = <<>>)

\* C30 happens: the call after a failure has succeeded with nothing but the
\* file that the failure left in the compiler.
C30_Witness ==
    /\ DrainedNothing
    /\ Compiled
    /\ result.files # <<>>
    /\ result.nodes = <<>>

====
